---- MODULE Spec2Model ----
(***************************************************************************)
(* State-machine model of the hologram-liveavatar agent: the avatar        *)
(* creation wizard (AvatarWizardService), the three PostgreSQL tables it   *)
(* and the credential flow read and write, the message webhook             *)
(* (MessageController) and the presentation callback.                      *)
(*                                                                         *)
(* Text is modelled as a sequence of one-character strings, so that trim,  *)
(* toLowerCase, parseInt and startsWith are computed as JavaScript does.   *)
(* A nullable text column is a record [isNull, v].  Time is counted in     *)
(* units of ten minutes.                                                   *)
(***************************************************************************)
EXTENDS Integers, Sequences, FiniteSets, TLC

VARIABLES
    now,                        \* the clock (NOW() / Date.now()), in ten-minute units
    avatar_creation_sessions,   \* table: set of wizard session rows
    avatar_configs,             \* table: sequence of config rows, in insertion order
    pending_presentations,      \* table: set of presentation rows
    avatarsCache,               \* AvatarWizardService.avatarsCache: loaded or not
    voicesCache,                \* AvatarWizardService.voicesCache: loaded or not
    credentialDefinitionId,     \* CredentialService.credentialDefinitionId
    out,                        \* what the last handled event returned and sent
    inflight                    \* the handlers suspended at an await, with what they hold

vars == <<now, avatar_creation_sessions, avatar_configs, pending_presentations,
          avatarsCache, voicesCache, credentialDefinitionId, out, inflight>>

-----------------------------------------------------------------------------
(* Bounds of the model *)

MaxTime == 4
MaxConfigs == 2
MaxPresentations == 2
MaxFailAt == 2

Users == {"u1", "u2"}

-----------------------------------------------------------------------------
(* Text *)

Whitespace == {" ", "\t"}

toLowerChar(c) ==
    CASE c = "A" -> "a" [] c = "B" -> "b" [] c = "C" -> "c" [] c = "D" -> "d"
      [] c = "E" -> "e" [] c = "F" -> "f" [] c = "G" -> "g" [] c = "H" -> "h"
      [] c = "I" -> "i" [] c = "J" -> "j" [] c = "K" -> "k" [] c = "L" -> "l"
      [] c = "M" -> "m" [] c = "N" -> "n" [] c = "O" -> "o" [] c = "P" -> "p"
      [] c = "Q" -> "q" [] c = "R" -> "r" [] c = "S" -> "s" [] c = "T" -> "t"
      [] c = "U" -> "u" [] c = "V" -> "v" [] c = "W" -> "w" [] c = "X" -> "x"
      [] c = "Y" -> "y" [] c = "Z" -> "z"
      [] OTHER -> c

toLowerCase(s) == [i \in 1..Len(s) |-> toLowerChar(s[i])]

RECURSIVE trimStart(_)
trimStart(s) == IF s # <<>> /\ Head(s) \in Whitespace THEN trimStart(Tail(s)) ELSE s

RECURSIVE trimEnd(_)
trimEnd(s) ==
    IF s # <<>> /\ s[Len(s)] \in Whitespace THEN trimEnd(SubSeq(s, 1, Len(s) - 1)) ELSE s

trim(s) == trimEnd(trimStart(s))

startsWith(s, p) == Len(s) >= Len(p) /\ SubSeq(s, 1, Len(p)) = p

Digits == {"0", "1", "2", "3", "4", "5", "6", "7", "8", "9"}

digitValue(c) ==
    CASE c = "0" -> 0 [] c = "1" -> 1 [] c = "2" -> 2 [] c = "3" -> 3 [] c = "4" -> 4
      [] c = "5" -> 5 [] c = "6" -> 6 [] c = "7" -> 7 [] c = "8" -> 8 [] c = "9" -> 9

RECURSIVE leadingDigits(_)
leadingDigits(s) ==
    IF s # <<>> /\ Head(s) \in Digits THEN <<Head(s)>> \o leadingDigits(Tail(s)) ELSE <<>>

RECURSIVE decimalValue(_)
decimalValue(ds) ==
    IF ds = <<>> THEN 0
    ELSE 10 * decimalValue(SubSeq(ds, 1, Len(ds) - 1)) + digitValue(ds[Len(ds)])

NaN == [nan |-> TRUE, n |-> 0]

\* parseInt(s, 10): skips leading white space, reads an optional sign and the
\* longest run of digits, and ignores whatever follows; NaN when no digit is read.
parseInt(s) ==
    LET t == trimStart(s)
        signed == t # <<>> /\ Head(t) \in {"+", "-"}
        body == IF signed THEN Tail(t) ELSE t
        ds == leadingDigits(body)
    IN  IF ds = <<>> THEN NaN
        ELSE [nan |-> FALSE,
              n |-> IF signed /\ Head(t) = "-" THEN 0 - decimalValue(ds) ELSE decimalValue(ds)]

isNaN(r) == r.nan

Null == [isNull |-> TRUE, v |-> <<>>]

Str(s) == [isNull |-> FALSE, v |-> s]

\* JavaScript truthiness of a string | null value: null and "" are falsy.
truthy(x) == ~x.isNull /\ x.v # <<>>

-----------------------------------------------------------------------------
(* Configuration and catalog *)

\* getAppConfig().liveavatar.avatarId and .voiceId (LIVEAVATAR_AVATAR_ID, LIVEAVATAR_VOICE_ID)
ConfigAvatarId == <<"a", "v", "-", "d", "e", "f">>

ConfigVoiceId == <<"v", "o", "-", "d", "e", "f">>

MANUAL_ENTRY == <<"M", "A", "N", "U", "A", "L", "_", "E", "N", "T", "R", "Y">>

SUPPORTED_LANGUAGES ==
    << <<"e", "n">>, <<"e", "s">>, <<"f", "r">>, <<"d", "e">>, <<"z", "h">>,
       <<"j", "a">>, <<"k", "o">>, <<"p", "t">>, <<"i", "t">> >>

\* Mutant of listAvatars: the manual-entry marker is listed first.
listAvatarsManualFirst ==
    <<MANUAL_ENTRY>> \o (IF ConfigAvatarId # <<>> THEN <<ConfigAvatarId>> ELSE <<>>)

\* HeyGenCatalogService.listAvatars: the configured default, then the manual-entry marker.
listAvatars ==
    (IF ConfigAvatarId # <<>> THEN <<ConfigAvatarId>> ELSE <<>>) \o <<MANUAL_ENTRY>>

listVoices ==
    (IF ConfigVoiceId # <<>> THEN <<ConfigVoiceId>> ELSE <<>>) \o <<MANUAL_ENTRY>>

ListLimit == 20

\* Array.prototype.slice(0, 20)
slice20(l) == SubSeq(l, 1, IF Len(l) < ListLimit THEN Len(l) ELSE ListLimit)

NoCache == [loaded |-> FALSE, data |-> <<>>]

Cache(l) == [loaded |-> TRUE, data |-> l]

-----------------------------------------------------------------------------
(* Table avatar_creation_sessions *)

SessionTtl == 3

SessionRow(u, step, t) ==
    [connectionId |-> u, currentStep |-> step,
     selectedAvatarId |-> Null, selectedVoiceId |-> Null, selectedLanguage |-> Null,
     customName |-> Null, systemPrompt |-> Null,
     startedAt |-> t, expiresAt |-> t + SessionTtl]

\* Mutant of sessionCreate: a plain INSERT, the row of u is not replaced.
sessionInsert(tbl, u, step, t) == tbl \cup {SessionRow(u, step, t)}

\* Mutant of sessionCreate: on conflict only the step and the expiry are reset.
sessionCreateKeepingSelections(tbl, u, step, t) ==
    IF \E r \in tbl : r.connectionId = u
    THEN {IF r.connectionId = u
             THEN [r EXCEPT !.currentStep = step, !.expiresAt = t + SessionTtl]
             ELSE r : r \in tbl}
    ELSE tbl \cup {SessionRow(u, step, t)}

\* INSERT ... ON CONFLICT (connection_id) DO UPDATE: the row of u is replaced by a fresh one.
sessionCreate(tbl, u, step, t) ==
    {r \in tbl : r.connectionId # u} \cup {SessionRow(u, step, t)}

\* Mutant of sessionFindByConnectionId: the SELECT without its expiry condition.
sessionFindIgnoringExpiry(tbl, u, t) == {r \in tbl : r.connectionId = u}

\* SELECT ... WHERE connection_id = $1 AND (expires_at IS NULL OR expires_at > NOW())
sessionFindByConnectionId(tbl, u, t) ==
    {r \in tbl : r.connectionId = u /\ r.expiresAt > t}

\* Mutant of sessionUpdate: an UPDATE without its WHERE clause, every row is patched.
sessionUpdateAll(tbl, u, patch) ==
    {[f \in DOMAIN r |-> IF f \in DOMAIN patch THEN patch[f] ELSE r[f]] : r \in tbl}

\* UPDATE ... SET <the fields of patch> WHERE connection_id = $n
sessionUpdate(tbl, u, patch) ==
    {IF r.connectionId = u
        THEN [f \in DOMAIN r |-> IF f \in DOMAIN patch THEN patch[f] ELSE r[f]]
        ELSE r : r \in tbl}

sessionDelete(tbl, u) == {r \in tbl : r.connectionId # u}

\* Mutant of sessionDeleteExpired: rows about to expire are deleted as well.
sessionDeleteExpiring(tbl, t) == {r \in tbl : ~(r.expiresAt < t + SessionTtl)}

\* DELETE ... WHERE expires_at IS NOT NULL AND expires_at < NOW()
sessionDeleteExpired(tbl, t) == {r \in tbl : ~(r.expiresAt < t)}

-----------------------------------------------------------------------------
(* Table avatar_configs *)

NoTime == -1

configId(n) == "c" \o ToString(n)

\* sql LOWER(): the same mapping as toLowerCase on the characters modelled
sqlLower(s) == toLowerCase(s)

\* Mutant of configNewRow: the language column is left to its default, 'en'.
configNewRowDefaultLanguage(cfgs, u, name, avatarId, voiceId, language, systemPrompt, t) ==
    [id |-> configId(Len(cfgs) + 1), connectionId |-> u, name |-> name,
     avatarId |-> avatarId, voiceId |-> voiceId, language |-> <<"e", "n">>,
     systemPrompt |-> IF truthy(systemPrompt) THEN systemPrompt ELSE Null,
     credentialDefinitionId |-> "", credentialIssuedAt |-> NoTime,
     createdAt |-> t, updatedAt |-> t]

\* INSERT INTO avatar_configs ... RETURNING *: the new row; system_prompt is
\* input.systemPrompt || null.
configNewRow(cfgs, u, name, avatarId, voiceId, language, systemPrompt, t) ==
    [id |-> configId(Len(cfgs) + 1), connectionId |-> u, name |-> name,
     avatarId |-> avatarId, voiceId |-> voiceId, language |-> language,
     systemPrompt |-> IF truthy(systemPrompt) THEN systemPrompt ELSE Null,
     credentialDefinitionId |-> "", credentialIssuedAt |-> NoTime,
     createdAt |-> t, updatedAt |-> t]

configCreate(cfgs, row) == Append(cfgs, row)

configIndexes(cfgs) == 1..Len(cfgs)

\* SELECT * FROM avatar_configs WHERE id = $1: the matching positions (at most one)
configFindById(cfgs, id) == {i \in configIndexes(cfgs) : cfgs[i].id = id}

\* Mutant of configFindByConnectionIdAndName: the names are compared as they are.
configFindByConnectionIdAndExactName(cfgs, u, name) ==
    {i \in configIndexes(cfgs) : cfgs[i].connectionId = u /\ cfgs[i].name = name}

\* Mutant of configFindByConnectionIdAndName: the owner is not part of the filter.
configFindByNameOfAnyOwner(cfgs, u, name) ==
    {i \in configIndexes(cfgs) : sqlLower(cfgs[i].name) = sqlLower(name)}

\* SELECT ... WHERE connection_id = $1 AND LOWER(name) = LOWER($2): the matching
\* positions; the caller takes rows[0].
configFindByConnectionIdAndName(cfgs, u, name) ==
    {i \in configIndexes(cfgs) :
        cfgs[i].connectionId = u /\ sqlLower(cfgs[i].name) = sqlLower(name)}

\* SELECT ... WHERE connection_id = $1 ORDER BY created_at DESC: positions, newest first
RECURSIVE configFindByConnectionIdFrom(_, _, _)
configFindByConnectionIdFrom(cfgs, u, i) ==
    IF i = 0 THEN <<>>
    ELSE (IF cfgs[i].connectionId = u THEN <<i>> ELSE <<>>)
            \o configFindByConnectionIdFrom(cfgs, u, i - 1)

\* Mutant of configFindByConnectionId: the rows are listed oldest first.
configFindByConnectionIdOldestFirst(cfgs, u) ==
    LET newestFirst == configFindByConnectionIdFrom(cfgs, u, Len(cfgs))
    IN  [k \in 1..Len(newestFirst) |-> newestFirst[Len(newestFirst) + 1 - k]]

configFindByConnectionId(cfgs, u) == configFindByConnectionIdFrom(cfgs, u, Len(cfgs))

\* UPDATE avatar_configs SET <patch>, updated_at = NOW() WHERE id = $n
configUpdate(cfgs, id, patch, t) ==
    [i \in configIndexes(cfgs) |->
        IF cfgs[i].id = id
        THEN [f \in DOMAIN cfgs[i] |->
                IF f \in DOMAIN patch THEN patch[f]
                ELSE IF f = "updatedAt" THEN t ELSE cfgs[i][f]]
        ELSE cfgs[i]]

-----------------------------------------------------------------------------
(* AvatarWizardService *)

T_cancel == <<"c", "a", "n", "c", "e", "l">>

T_slash_cancel == <<"/">> \o T_cancel

T_confirm == <<"c", "o", "n", "f", "i", "r", "m">>

\* Mutant of T_yes: another word is taken as the confirmation.
T_maybe == <<"m", "a", "y", "b", "e">>

T_yes == <<"y", "e", "s">>

\* Mutant of T_no: another word is taken as the refusal.
T_nope == <<"n", "o", "p", "e">>

T_no == <<"n", "o">>

\* Mutant of T_skip: another word stands for the default personality.
T_default == <<"d", "e", "f", "a", "u", "l", "t">>

T_skip == <<"s", "k", "i", "p">>

MinIdLength == 8

MinNameLength == 2

\* Mutant of MaxNameLength: the limit is one character lower.
ShorterNameLength == 100 - 1

MaxNameLength == 100

\* WizardResponse
Response(m, ended, complete, cfg) ==
    [message |-> m, sessionEnded |-> ended, isComplete |-> complete, avatarConfig |-> cfg]

Reply(m) == Response(m, FALSE, FALSE, <<>>)

\* Mutant of Ended: the reply does not mark the session as ended.
Continued(m) == Response(m, FALSE, FALSE, <<>>)

Ended(m) == Response(m, TRUE, FALSE, <<>>)

\* The stores and caches a wizard call leaves behind, with its response
WizardResult(sess, cfgs, ac, vc, resp) ==
    [sessions |-> sess, configs |-> cfgs, avatarsCache |-> ac, voicesCache |-> vc,
     response |-> resp]

\* Mutant of isCancelCommand: only the slash form aborts.
isCancelCommandSlashOnly(trimmedInput) == trimmedInput = T_slash_cancel

\* trimmedInput === 'cancel' || trimmedInput === '/cancel'
isCancelCommand(trimmedInput) == trimmedInput = T_cancel \/ trimmedInput = T_slash_cancel

startWizard(u, catalogOk) ==
    LET sess == sessionCreate(avatar_creation_sessions, u, "avatar_selection", now)
    IN  IF ~catalogOk
        THEN WizardResult(sess, avatar_configs, avatarsCache, voicesCache,
                          Ended("catalog_failed"))
        ELSE WizardResult(sess, avatar_configs, Cache(listAvatars), voicesCache,
                          Reply("avatar_list"))

hasActiveSession(u) == sessionFindByConnectionId(avatar_creation_sessions, u, now) # {}

cancelWizard(u) ==
    IF sessionFindByConnectionId(avatar_creation_sessions, u, now) # {}
    THEN WizardResult(sessionDelete(avatar_creation_sessions, u), avatar_configs,
                      avatarsCache, voicesCache, Ended("cancelled"))
    ELSE WizardResult(avatar_creation_sessions, avatar_configs, avatarsCache, voicesCache,
                      Ended("no_session_to_cancel"))

\* isNaN(selection) || selection < 1 || selection > options
invalidSelection(selection, options) ==
    isNaN(selection) \/ selection.n < 1 \/ selection.n > options

handleAvatarSelection(u, session, input) ==
    LET selection == parseInt(trim(input))
        cache == IF ~avatarsCache.loaded THEN Cache(listAvatars) ELSE avatarsCache
        availableAvatars == slice20(cache.data)
    IN  IF invalidSelection(selection, Len(availableAvatars))
        THEN WizardResult(avatar_creation_sessions, avatar_configs, cache, voicesCache,
                          Reply("invalid_number"))
        ELSE IF availableAvatars[selection.n] = MANUAL_ENTRY
        THEN WizardResult(
                sessionUpdate(avatar_creation_sessions, u,
                              [currentStep |-> "avatar_manual_entry"]),
                avatar_configs, cache, voicesCache, Reply("enter_avatar_id"))
        ELSE WizardResult(
                sessionUpdate(avatar_creation_sessions, u,
                              [selectedAvatarId |-> Str(availableAvatars[selection.n]),
                               currentStep |-> "voice_selection"]),
                avatar_configs, cache, Cache(listVoices), Reply("voice_list"))

\* Mutant of handleAvatarManualEntry: the reference is recorded whatever its length.
handleAvatarManualEntryUnchecked(u, session, input) ==
    WizardResult(
        sessionUpdate(avatar_creation_sessions, u,
                      [selectedAvatarId |-> Str(trim(input)),
                       currentStep |-> "voice_selection"]),
        avatar_configs, avatarsCache, Cache(listVoices), Reply("voice_list"))

handleAvatarManualEntry(u, session, input) ==
    LET avatarId == trim(input)
    IN  IF avatarId = <<>> \/ Len(avatarId) < MinIdLength
        THEN WizardResult(avatar_creation_sessions, avatar_configs, avatarsCache,
                          voicesCache, Reply("invalid_avatar_id"))
        ELSE WizardResult(
                sessionUpdate(avatar_creation_sessions, u,
                              [selectedAvatarId |-> Str(avatarId),
                               currentStep |-> "voice_selection"]),
                avatar_configs, avatarsCache, Cache(listVoices), Reply("voice_list"))

handleVoiceSelection(u, session, input) ==
    LET selection == parseInt(trim(input))
        cache == IF ~voicesCache.loaded THEN Cache(listVoices) ELSE voicesCache
        availableVoices == slice20(cache.data)
    IN  IF invalidSelection(selection, Len(availableVoices))
        THEN WizardResult(avatar_creation_sessions, avatar_configs, avatarsCache, cache,
                          Reply("invalid_number"))
        ELSE IF availableVoices[selection.n] = MANUAL_ENTRY
        THEN WizardResult(
                sessionUpdate(avatar_creation_sessions, u,
                              [currentStep |-> "voice_manual_entry"]),
                avatar_configs, avatarsCache, cache, Reply("enter_voice_id"))
        ELSE WizardResult(
                sessionUpdate(avatar_creation_sessions, u,
                              [selectedVoiceId |-> Str(availableVoices[selection.n]),
                               currentStep |-> "language_selection"]),
                avatar_configs, avatarsCache, cache, Reply("language_list"))

handleVoiceManualEntry(u, session, input) ==
    LET voiceId == trim(input)
    IN  IF voiceId = <<>> \/ Len(voiceId) < MinIdLength
        THEN WizardResult(avatar_creation_sessions, avatar_configs, avatarsCache,
                          voicesCache, Reply("invalid_voice_id"))
        ELSE WizardResult(
                sessionUpdate(avatar_creation_sessions, u,
                              [selectedVoiceId |-> Str(voiceId),
                               currentStep |-> "language_selection"]),
                avatar_configs, avatarsCache, voicesCache, Reply("language_list"))

\* Mutant of handleLanguageSelection: the wizard goes on to prompt_input, past the name.
handleLanguageSelectionPastName(u, session, input) ==
    WizardResult(
        sessionUpdate(avatar_creation_sessions, u,
                      [selectedLanguage |-> Str(SUPPORTED_LANGUAGES[1]),
                       currentStep |-> "prompt_input"]),
        avatar_configs, avatarsCache, voicesCache, Reply("prompt_prompt"))

handleLanguageSelection(u, session, input) ==
    LET selection == parseInt(trim(input))
    IN  IF invalidSelection(selection, Len(SUPPORTED_LANGUAGES))
        THEN WizardResult(avatar_creation_sessions, avatar_configs, avatarsCache,
                          voicesCache, Reply("invalid_number"))
        ELSE WizardResult(
                sessionUpdate(avatar_creation_sessions, u,
                              [selectedLanguage |-> Str(SUPPORTED_LANGUAGES[selection.n]),
                               currentStep |-> "name_input"]),
                avatar_configs, avatarsCache, voicesCache, Reply("name_prompt"))

handleNameInput(u, session, input) ==
    LET name == trim(input)
    IN  IF name = <<>> \/ Len(name) < MinNameLength
        THEN WizardResult(avatar_creation_sessions, avatar_configs, avatarsCache,
                          voicesCache, Reply("name_too_short"))
        ELSE IF Len(name) > MaxNameLength
        THEN WizardResult(avatar_creation_sessions, avatar_configs, avatarsCache,
                          voicesCache, Reply("name_too_long"))
        ELSE IF configFindByConnectionIdAndName(avatar_configs, u, name) # {}
        THEN WizardResult(avatar_creation_sessions, avatar_configs, avatarsCache,
                          voicesCache, Reply("name_exists"))
        ELSE WizardResult(
                sessionUpdate(avatar_creation_sessions, u,
                              [customName |-> Str(name), currentStep |-> "prompt_input"]),
                avatar_configs, avatarsCache, voicesCache, Reply("prompt_prompt"))

handlePromptInput(u, session, input) ==
    LET prompt == trim(input)
        isSkip == toLowerCase(prompt) = T_skip
        sess == sessionUpdate(avatar_creation_sessions, u,
                              [systemPrompt |-> IF isSkip THEN Null ELSE Str(prompt),
                               currentStep |-> "confirmation"])
    IN  IF sessionFindByConnectionId(sess, u, now) = {}
        THEN WizardResult(sess, avatar_configs, avatarsCache, voicesCache,
                          Ended("session_expired"))
        ELSE WizardResult(sess, avatar_configs, avatarsCache, voicesCache,
                          Reply("summary"))

handleConfirmation(u, session, input) ==
    LET confirmation == toLowerCase(trim(input))
    IN  IF confirmation # T_confirm /\ confirmation # T_yes
        THEN IF confirmation = T_cancel \/ confirmation = T_no
             THEN WizardResult(sessionDelete(avatar_creation_sessions, u), avatar_configs,
                               avatarsCache, voicesCache, Ended("cancelled"))
             ELSE WizardResult(avatar_creation_sessions, avatar_configs, avatarsCache,
                               voicesCache, Reply("confirm_reprompt"))
        ELSE IF \/ ~truthy(session.selectedAvatarId) \/ ~truthy(session.selectedVoiceId)
                \/ ~truthy(session.selectedLanguage) \/ ~truthy(session.customName)
        THEN WizardResult(avatar_creation_sessions, avatar_configs, avatarsCache,
                          voicesCache, Ended("session_incomplete"))
        ELSE LET avatarConfig ==
                    configNewRow(avatar_configs, u, session.customName.v,
                                 session.selectedAvatarId.v, session.selectedVoiceId.v,
                                 session.selectedLanguage.v, session.systemPrompt, now)
             IN  WizardResult(sessionDelete(avatar_creation_sessions, u),
                              configCreate(avatar_configs, avatarConfig),
                              avatarsCache, voicesCache,
                              Response("creating", FALSE, TRUE, <<avatarConfig>>))

\* processInput from the return of its session read on: session is the row it read
dispatchStep(u, session, input) ==
    LET trimmedInput == toLowerCase(trim(input))
    IN  IF isCancelCommand(trimmedInput)
        THEN WizardResult(sessionDelete(avatar_creation_sessions, u),
                          avatar_configs, avatarsCache, voicesCache,
                          Ended("cancelled"))
        ELSE CASE session.currentStep = "avatar_selection" ->
                       handleAvatarSelection(u, session, input)
               [] session.currentStep = "avatar_manual_entry" ->
                       handleAvatarManualEntry(u, session, input)
               [] session.currentStep = "voice_selection" ->
                       handleVoiceSelection(u, session, input)
               [] session.currentStep = "voice_manual_entry" ->
                       handleVoiceManualEntry(u, session, input)
               [] session.currentStep = "language_selection" ->
                       handleLanguageSelection(u, session, input)
               [] session.currentStep = "name_input" ->
                       handleNameInput(u, session, input)
               [] session.currentStep = "prompt_input" ->
                       handlePromptInput(u, session, input)
               [] session.currentStep = "confirmation" ->
                       handleConfirmation(u, session, input)
               [] OTHER ->
                       WizardResult(avatar_creation_sessions, avatar_configs,
                                    avatarsCache, voicesCache,
                                    Ended("unknown_step"))

processInput(u, input) ==
    LET found == sessionFindByConnectionId(avatar_creation_sessions, u, now)
    IN  IF found = {}
        THEN WizardResult(avatar_creation_sessions, avatar_configs, avatarsCache,
                          voicesCache, Ended("no_active_session"))
        ELSE dispatchStep(u, CHOOSE r \in found : TRUE, input)

-----------------------------------------------------------------------------
(* What the last handled event returned and sent *)

NoEvent ==
    [op |-> "none", conn |-> "", input |-> <<>>, step |-> "none", message |-> "",
     sessionEnded |-> FALSE, isComplete |-> FALSE, cfg |-> "", issuance |-> "none",
     proofRequests |-> 0, proofOutcome |-> "none", attempted |-> "", started |-> "",
     http |-> 0, proof |-> <<>>, rowCount |-> 0, issuanceRequests |-> 0]

\* currentStep of the active session of u, "none" without one
stepOf(u) ==
    LET found == sessionFindByConnectionId(avatar_creation_sessions, u, now)
    IN  IF found = {} THEN "none" ELSE (CHOOSE r \in found : TRUE).currentStep

activeSession(u) == CHOOSE r \in sessionFindByConnectionId(avatar_creation_sessions, u, now) : TRUE

WizardOut(op, u, input, r) ==
    [NoEvent EXCEPT !.op = op, !.conn = u, !.input = input, !.step = stepOf(u),
                    !.message = r.response.message,
                    !.sessionEnded = r.response.sessionEnded,
                    !.isComplete = r.response.isComplete,
                    !.cfg = IF r.response.avatarConfig = <<>> THEN ""
                            ELSE r.response.avatarConfig[1].id]

ApplyWizard(r) ==
    /\ avatar_creation_sessions' = r.sessions
    /\ avatar_configs' = r.configs
    /\ avatarsCache' = r.avatarsCache
    /\ voicesCache' = r.voicesCache

-----------------------------------------------------------------------------
(* The wizard's operations as actions *)

StartWizard(u) ==
    \E r \in {startWizard(u, TRUE)} :
        /\ ApplyWizard(r)
        /\ out' = WizardOut("startWizard", u, <<>>, r)
        /\ UNCHANGED <<now, pending_presentations, credentialDefinitionId, inflight>>

ProcessInput(u, input) ==
    \E r \in {processInput(u, input)} :
        /\ Len(r.configs) <= MaxConfigs
        /\ ApplyWizard(r)
        /\ out' = WizardOut("processInput", u, input, r)
        /\ UNCHANGED <<now, pending_presentations, credentialDefinitionId, inflight>>

CancelWizard(u) ==
    \E r \in {cancelWizard(u)} :
        /\ ApplyWizard(r)
        /\ out' = WizardOut("cancelWizard", u, <<>>, r)
        /\ UNCHANGED <<now, pending_presentations, credentialDefinitionId, inflight>>

\* Time passes.
Tick ==
    /\ now < MaxTime
    /\ now' = now + 1
    /\ UNCHANGED <<avatar_creation_sessions, avatar_configs, pending_presentations,
                   avatarsCache, voicesCache, credentialDefinitionId, out,
                   inflight>>

-----------------------------------------------------------------------------
(* Inputs enumerated for the wizard *)

I_1 == <<"1">>

I_2 == <<" ", "2", " ">>

I_1x == <<"1", "x">>

I_0 == <<"0">>

I_3 == <<"3">>

I_10 == <<"1", "0">>

I_abc == <<"a", "b", "c">>

I_Cancel == <<"C", "a", "n", "c", "e", "l", " ">>

I_avatarId == <<"a", "v", "-", "m", "a", "n", "u", "1">>

I_voiceId == <<"v", "o", "-", "m", "a", "n", "u", "1">>

I_id7 == <<"a", "v", "-", "m", "a", "n", "u">>

I_Al == <<"A", "l">>

I_al == <<" ", "a", "l", " ">>

I_B == <<"B">>

I_name101 == [i \in 1..(MaxNameLength + 1) |-> "n"]

I_Skip == <<"S", "k", "i", "p">>

I_blank == <<" ">>

I_kind == <<"B", "e", " ", "k", "i", "n", "d">>

I_Confirm == <<"C", "o", "n", "f", "i", "r", "m">>

I_yes == <<"Y", "E", "S">>

I_no == <<"n", "o">>

I_maybe == <<"m", "a", "y", "b", "e">>

SelectionInputs == {I_1, I_2, I_1x, I_0, I_3, I_abc}

\* The inputs tried at each step: the ones the step accepts, the ones it rejects, and cancel.
WizardInputs(step) ==
    {I_Cancel} \cup
    CASE step \in {"avatar_selection", "voice_selection"} -> SelectionInputs
      [] step = "language_selection" -> {I_1, I_2, I_1x, I_0, I_10, I_abc}
      [] step = "avatar_manual_entry" -> {I_avatarId, I_id7, I_blank}
      [] step = "voice_manual_entry" -> {I_voiceId, I_id7, I_blank}
      [] step = "name_input" -> {I_Al, I_al, I_B, I_name101, I_blank}
      [] step = "prompt_input" -> {I_Skip, I_blank, I_kind}
      [] step = "confirmation" -> {I_Confirm, I_yes, I_no, I_maybe}
      [] OTHER -> {I_1, I_Al, I_Confirm}

\* A config a user committed in an earlier run of the wizard
EarlierConfig(u) ==
    configNewRow(<<>>, u, I_Al, ConfigAvatarId, ConfigVoiceId, SUPPORTED_LANGUAGES[1],
                 Null, 0)

InitWizard ==
    /\ now = 0
    /\ avatar_creation_sessions = {}
    /\ avatar_configs \in {<<EarlierConfig("u1")>>, <<EarlierConfig("u2")>>}
    /\ pending_presentations = {}
    /\ avatarsCache = NoCache
    /\ voicesCache = NoCache
    /\ credentialDefinitionId = ""
    /\ out = NoEvent
    /\ inflight = {}

NextWizard ==
    \/ StartWizard("u1")
    \/ \E input \in WizardInputs(stepOf("u1")) : ProcessInput("u1", input)
    \/ CancelWizard("u1")

SpecWizard == InitWizard /\ [][NextWizard]_vars

-----------------------------------------------------------------------------
(* Claims about the wizard, checked under SpecWizard *)

Steps ==
    {"avatar_selection", "avatar_manual_entry", "voice_selection", "voice_manual_entry",
     "language_selection", "name_input", "prompt_input", "confirmation"}

WizardTexts == UNION {WizardInputs(step) : step \in Steps \cup {"none"}}

sessionRowsOf(tbl, u) == {r \in tbl : r.connectionId = u}

\* The row a commit of session s appends; the prompt is copied as the session holds it.
CommittedExactly(c, s) ==
    /\ c.connectionId = s.connectionId
    /\ ~s.selectedAvatarId.isNull /\ c.avatarId = s.selectedAvatarId.v
    /\ ~s.selectedVoiceId.isNull /\ c.voiceId = s.selectedVoiceId.v
    /\ ~s.selectedLanguage.isNull /\ c.language = s.selectedLanguage.v
    /\ ~s.customName.isNull /\ c.name = s.customName.v
    /\ c.systemPrompt = s.systemPrompt

\* The same, with an empty prompt of the session stored as null.
CommittedNormalised(c, s) ==
    /\ c.connectionId = s.connectionId
    /\ ~s.selectedAvatarId.isNull /\ c.avatarId = s.selectedAvatarId.v
    /\ ~s.selectedVoiceId.isNull /\ c.voiceId = s.selectedVoiceId.v
    /\ ~s.selectedLanguage.isNull /\ c.language = s.selectedLanguage.v
    /\ ~s.customName.isNull /\ c.name = s.customName.v
    /\ c.systemPrompt = (IF s.systemPrompt = Str(<<>>) THEN Null ELSE s.systemPrompt)

ConfirmStep(u, input) ==
    /\ stepOf(u) = "confirmation"
    /\ toLowerCase(trim(input)) = T_confirm
    /\ ProcessInput(u, input)

OneRowAppended ==
    /\ Len(avatar_configs') = Len(avatar_configs) + 1
    /\ SubSeq(avatar_configs', 1, Len(avatar_configs)) = avatar_configs

\* C1 (as stated): a walk of the wizard that ends with 'confirm' appends exactly one
\* AvatarConfig row whose avatar, voice, language, name and prompt equal the
\* session's selections, and deletes the user's session row.
C1_CommitEqualsSelections ==
    [][\A u \in Users, input \in WizardTexts :
          ConfirmStep(u, input) =>
            /\ OneRowAppended
            /\ CommittedExactly(avatar_configs'[Len(avatar_configs')], activeSession(u))
            /\ sessionRowsOf(avatar_creation_sessions', u) = {}
            /\ out'.isComplete]_vars

\* C1 (amended): the same, except that an empty prompt held by the session is
\* stored as null in the committed row.
C1_CommitMatchesSelections ==
    [][\A u \in Users, input \in WizardTexts :
          ConfirmStep(u, input) =>
            /\ OneRowAppended
            /\ CommittedNormalised(avatar_configs'[Len(avatar_configs')], activeSession(u))
            /\ sessionRowsOf(avatar_creation_sessions', u) = {}
            /\ out'.isComplete]_vars

\* A commit has happened after a walk through both manual-entry steps with a prompt.
C1_Witness ==
    /\ out.op = "processInput" /\ out.step = "confirmation" /\ out.isComplete
    /\ sessionRowsOf(avatar_creation_sessions, out.conn) = {}
    /\ \E i \in configIndexes(avatar_configs) :
          /\ avatar_configs[i].id = out.cfg
          /\ avatar_configs[i].avatarId = I_avatarId
          /\ avatar_configs[i].voiceId = I_voiceId
          /\ avatar_configs[i].language = SUPPORTED_LANGUAGES[2]
          /\ avatar_configs[i].systemPrompt = Str(I_kind)

isCancel(input) == toLowerCase(trim(input)) \in {T_cancel, T_slash_cancel}

ownsName(cfgs, u, name) ==
    \E i \in configIndexes(cfgs) :
        cfgs[i].connectionId = u /\ toLowerCase(cfgs[i].name) = toLowerCase(name)

\* C8: at name_input a name the owner already has (ignoring case, after trimming) is
\* answered with a re-prompt and leaves the session and the configs unchanged; a
\* name only other users have is recorded and the wizard moves to prompt_input.
C8_DuplicateNameRejected ==
    [][\A u \in Users, input \in WizardTexts :
          (stepOf(u) = "name_input" /\ ~isCancel(input) /\ ProcessInput(u, input)) =>
            /\ ownsName(avatar_configs, u, trim(input)) =>
                 /\ out'.message = "name_exists" /\ ~out'.sessionEnded
                 /\ avatar_creation_sessions' = avatar_creation_sessions
                 /\ avatar_configs' = avatar_configs
            /\ (/\ ~ownsName(avatar_configs, u, trim(input))
                /\ Len(trim(input)) >= MinNameLength /\ Len(trim(input)) <= MaxNameLength) =>
                 /\ out'.message = "prompt_prompt"
                 /\ \E r \in sessionRowsOf(avatar_creation_sessions', u) :
                       r.currentStep = "prompt_input" /\ r.customName = Str(trim(input))]_vars

\* The owner's own name, in another case and padded, was rejected at name_input.
C8_Witness ==
    /\ out.op = "processInput" /\ out.step = "name_input" /\ out.message = "name_exists"
    /\ out.input = I_al
    /\ \E i \in configIndexes(avatar_configs) :
          avatar_configs[i].connectionId = out.conn /\ avatar_configs[i].name = I_Al
    /\ \E r \in sessionRowsOf(avatar_creation_sessions, out.conn) :
          r.currentStep = "name_input" /\ r.customName = Null

\* C9: at every step, processInput with 'cancel' on an active session deletes the
\* user's session row, creates no config and answers the cancellation with the
\* session marked ended.
C9_CancelAtAnyStep ==
    [][\A u \in Users, input \in WizardTexts :
          (stepOf(u) # "none" /\ toLowerCase(trim(input)) = T_cancel
             /\ ProcessInput(u, input)) =>
            /\ sessionRowsOf(avatar_creation_sessions', u) = {}
            /\ avatar_configs' = avatar_configs
            /\ out'.message = "cancelled" /\ out'.sessionEnded]_vars

\* A session was cancelled in the middle of the walk.
C9_Witness ==
    /\ out.op = "processInput" /\ out.step = "voice_manual_entry"
    /\ out.message = "cancelled" /\ out.sessionEnded
    /\ sessionRowsOf(avatar_creation_sessions, out.conn) = {}

\* The trimmed input is a decimal number: an optional sign and digits only.
isNumber(input) ==
    LET t == trim(input)
        body == IF t # <<>> /\ Head(t) \in {"+", "-"} THEN Tail(t) ELSE t
    IN  body # <<>> /\ \A i \in 1..Len(body) : body[i] \in Digits

optionsAt(step) ==
    CASE step = "avatar_selection" -> Len(slice20(listAvatars))
      [] step = "voice_selection" -> Len(slice20(listVoices))
      [] OTHER -> Len(SUPPORTED_LANGUAGES)

\* C10: at the three selection steps an input that is not a number, or is a number
\* outside 1..(number of options), leaves the session row unchanged and is answered
\* with a re-prompt.
C10_InvalidSelectionNoChange ==
    [][\A u \in Users, input \in WizardTexts :
          (/\ stepOf(u) \in {"avatar_selection", "voice_selection", "language_selection"}
           /\ ~isCancel(input)
           /\ \/ ~isNumber(input)
              \/ parseInt(trim(input)).n < 1
              \/ parseInt(trim(input)).n > optionsAt(stepOf(u))
           /\ ProcessInput(u, input)) =>
            /\ avatar_creation_sessions' = avatar_creation_sessions
            /\ out'.message = "invalid_number"]_vars

-----------------------------------------------------------------------------
(* CredentialService and the external services *)

\* The outcomes of the calls a webhook makes to other services: failAt is the
\* ordinal of the vsAgentService.sendMessage call that throws (0: none does),
\* issueOk, proofOk and liveOk tell whether the credential-issuance request, the
\* identity-proof request and LiveAvatar's session creation are accepted.
Externals ==
    [failAt : 0..MaxFailAt, issueOk : BOOLEAN, proofOk : BOOLEAN, liveOk : BOOLEAN]

\* The outcomes a handler that only sends messages depends on
SendExternals == {x \in Externals : x.issueOk /\ x.proofOk /\ x.liveOk}

\* The outcomes a handler that creates a session and sends messages depends on
SessionExternals == {x \in Externals : x.issueOk /\ x.proofOk}

sendThrows(x, k) == x.failAt = k

\* CredentialService.isConfigured
isConfigured == credentialDefinitionId # ""

\* LiveAvatarService.hasApiKey: the deployment modelled has LIVEAVATAR_API_KEY set
hasApiKey == TRUE

\* Mutant of issueAvatarCredential: the row is also marked as issued at once.
issueAvatarCredentialMarkingIssued(cfgs, avatarConfig, x) ==
    IF credentialDefinitionId = ""
    THEN [threw |-> TRUE, requested |-> FALSE, configs |-> cfgs]
    ELSE IF ~x.issueOk
    THEN [threw |-> TRUE, requested |-> TRUE, configs |-> cfgs]
    ELSE [threw |-> FALSE, requested |-> TRUE,
          configs |-> configUpdate(cfgs, avatarConfig.id,
                                   [credentialDefinitionId |-> credentialDefinitionId,
                                    credentialIssuedAt |-> now], now)]

\* Mutant of issueAvatarCredential: the request is sent whether or not a credential
\* definition is registered.
issueAvatarCredentialUnguarded(cfgs, avatarConfig, x) ==
    IF ~x.issueOk
    THEN [threw |-> TRUE, requested |-> TRUE, configs |-> cfgs]
    ELSE [threw |-> FALSE, requested |-> TRUE,
          configs |-> configUpdate(cfgs, avatarConfig.id,
                                   [credentialDefinitionId |-> credentialDefinitionId], now)]

\* CredentialService.issueAvatarCredential: throws without a credential definition,
\* before any request, or when the agent refuses the credential-issuance message;
\* otherwise stamps the definition on the row.
issueAvatarCredential(cfgs, avatarConfig, x) ==
    IF credentialDefinitionId = ""
    THEN [threw |-> TRUE, requested |-> FALSE, configs |-> cfgs]
    ELSE IF ~x.issueOk
    THEN [threw |-> TRUE, requested |-> TRUE, configs |-> cfgs]
    ELSE [threw |-> FALSE, requested |-> TRUE,
          configs |-> configUpdate(cfgs, avatarConfig.id,
                                   [credentialDefinitionId |-> credentialDefinitionId], now)]

\* CredentialService.requestIdentityProof: throws without a credential definition
\* or when the agent refuses the request.
requestIdentityProofThrows(x) == credentialDefinitionId = "" \/ ~x.proofOk

-----------------------------------------------------------------------------
(* MessageController *)

T_create == <<"c", "r", "e", "a", "t", "e">>

T_access == <<"a", "c", "c", "e", "s", "s">>

T_my_avatars == <<"m", "y", "-", "a", "v", "a", "t", "a", "r", "s">>

T_start == <<"s", "t", "a", "r", "t">>

T_avatar == <<"a", "v", "a", "t", "a", "r">>

T_help == <<"h", "e", "l", "p">>

\* Mutant of Slash: the command words are matched without their slash.
NoSlash(t) == t

Slash(t) == <<"/">> \o t

\* What a webhook leaves behind: the stores, the caches and the record of the event
Handled(sess, cfgs, ac, vc, o) ==
    [sessions |-> sess, configs |-> cfgs, avatarsCache |-> ac, voicesCache |-> vc, out |-> o]

Unchanged(o) ==
    Handled(avatar_creation_sessions, avatar_configs, avatarsCache, voicesCache, o)

Event(op, u, input) ==
    [NoEvent EXCEPT !.op = op, !.conn = u, !.input = input, !.step = stepOf(u)]

\* A handler whose last act is sendMessage number k: 500 when it throws, else 200
Replied(o, m, x, k) ==
    [o EXCEPT !.message = m, !.http = IF sendThrows(x, k) THEN 500 ELSE 200]

\* content.replace(/^\/?access\s+/i, '').trim()
accessName(content) ==
    LET lower == toLowerCase(content)
        slash == IF startsWith(lower, <<"/">>) THEN 1 ELSE 0
        word == slash + Len(T_access)
        matched == /\ Len(lower) > word
                   /\ SubSeq(lower, slash + 1, word) = T_access
                   /\ lower[word + 1] \in Whitespace
    IN  trim(IF matched THEN trimStart(SubSeq(content, word + 1, Len(content)))
             ELSE content)

handleWizardInput(u, input, x) ==
    LET r == processInput(u, input)
        e == [Event("wizard", u, input) EXCEPT
                 !.message = r.response.message,
                 !.sessionEnded = r.response.sessionEnded,
                 !.isComplete = r.response.isComplete,
                 !.cfg = IF r.response.avatarConfig = <<>> THEN ""
                         ELSE r.response.avatarConfig[1].id]
    IN  IF sendThrows(x, 1)
        THEN Handled(r.sessions, r.configs, r.avatarsCache, r.voicesCache,
                     [e EXCEPT !.http = 500])
        ELSE IF ~(r.response.isComplete /\ r.response.avatarConfig # <<>>)
        THEN Handled(r.sessions, r.configs, r.avatarsCache, r.voicesCache,
                     [e EXCEPT !.http = 200])
        ELSE IF isConfigured
        THEN LET issued == issueAvatarCredential(r.configs, r.response.avatarConfig[1], x)
             IN  IF issued.threw
                 THEN Handled(r.sessions, r.configs, r.avatarsCache, r.voicesCache,
                              [e EXCEPT !.issuance = "failed",
                                        !.issuanceRequests =
                                            IF issued.requested THEN 1 ELSE 0,
                                        !.http = IF sendThrows(x, 2) THEN 500 ELSE 200])
                 ELSE Handled(r.sessions, issued.configs, r.avatarsCache, r.voicesCache,
                              [e EXCEPT !.issuance = "initiated",
                                        !.issuanceRequests = 1, !.http = 200])
        ELSE Handled(r.sessions, r.configs, r.avatarsCache, r.voicesCache,
                     [e EXCEPT !.http = IF sendThrows(x, 2) THEN 500 ELSE 200])

handleCreateCommand(u, x) ==
    IF ~hasApiKey
    THEN Unchanged(Replied(Event("create", u, <<>>), "need_api_key", x, 1))
    ELSE LET r == startWizard(u, TRUE)
         IN  Handled(r.sessions, r.configs, r.avatarsCache, r.voicesCache,
                     Replied(Event("create", u, <<>>), r.response.message, x, 1))

handleCancelCommand(u, x) ==
    IF hasActiveSession(u)
    THEN LET r == cancelWizard(u)
         IN  Handled(r.sessions, r.configs, r.avatarsCache, r.voicesCache,
                     [Replied(Event("cancel", u, <<>>), r.response.message, x, 1)
                         EXCEPT !.sessionEnded = r.response.sessionEnded])
    ELSE Unchanged(Replied(Event("cancel", u, <<>>), "no_session_to_cancel", x, 1))

handleMyAvatarsCommand(u, x) ==
    Unchanged(Replied(Event("my-avatars", u, <<>>),
                      IF configFindByConnectionId(avatar_configs, u) = <<>>
                      THEN "no_avatars" ELSE "avatar_names", x, 1))

\* startCustomAvatarSession, its first sendMessage being number k of the webhook
startCustomAvatarSession(o, avatar, x, k) ==
    IF x.liveOk
    THEN [o EXCEPT !.attempted = avatar.id, !.started = avatar.id,
                   !.message = IF sendThrows(x, k) \/ sendThrows(x, k + 1)
                               THEN "start_failed" ELSE "starting",
                   !.http = 200]
    ELSE [o EXCEPT !.attempted = avatar.id, !.message = "start_failed",
                   !.http = IF sendThrows(x, k) THEN 500 ELSE 200]

\* Mutant of accessRequiresProof: no config is gated.
accessNeverRequiresProof(avatar) == FALSE

\* Mutant of accessRequiresProof: every config is gated once the service is configured.
accessRequiresProofWhenConfigured(avatar) == isConfigured

\* credentialService.isConfigured() && avatar.credentialIssuedAt
accessRequiresProof(avatar) == isConfigured /\ avatar.credentialIssuedAt # NoTime

handleAccessCommand(u, content, avatarName, x) ==
    LET e == Event("access", u, content)
        found == configFindByConnectionIdAndName(avatar_configs, u, avatarName)
    IN  IF avatarName = <<>>
        THEN Unchanged(Replied(e, "access_usage", x, 1))
        ELSE IF found = {}
        THEN Unchanged(Replied(e, "avatar_not_found", x, 1))
        ELSE LET avatar == avatar_configs[CHOOSE i \in found : \A j \in found : i <= j]
                 o == [e EXCEPT !.cfg = avatar.id]
             IN  IF accessRequiresProof(avatar)
                 THEN IF sendThrows(x, 1)
                      THEN Unchanged(startCustomAvatarSession(
                                [o EXCEPT !.proofOutcome = "announce_failed"], avatar, x, 2))
                      ELSE IF requestIdentityProofThrows(x)
                      THEN Unchanged(startCustomAvatarSession(
                                [o EXCEPT !.proofRequests = 1, !.proofOutcome = "refused"],
                                avatar, x, 2))
                      ELSE Unchanged([o EXCEPT !.proofRequests = 1,
                                               !.proofOutcome = "accepted",
                                               !.message = "present_credential",
                                               !.http = 200])
                 ELSE Unchanged(startCustomAvatarSession(o, avatar, x, 1))

handleStartCommand(u, x) ==
    Unchanged([Event("start", u, <<>>) EXCEPT
                  !.message = "start_default",
                  !.http = IF sendThrows(x, 1) \/ sendThrows(x, 2) THEN 500 ELSE 200])

handleHelpCommand(u, x) == Unchanged(Replied(Event("help", u, <<>>), "help", x, 1))

handleTextMessage(u, content, x) ==
    LET normalizedContent == trim(toLowerCase(content))
        hasWizardSession == hasActiveSession(u)
    IN  IF hasWizardSession /\ ~startsWith(normalizedContent, <<"/">>)
        THEN handleWizardInput(u, content, x)
        ELSE IF normalizedContent \in {Slash(T_create), T_create}
        THEN handleCreateCommand(u, x)
        ELSE IF normalizedContent \in {Slash(T_cancel), T_cancel}
        THEN handleCancelCommand(u, x)
        ELSE IF normalizedContent \in {Slash(T_my_avatars), T_my_avatars}
        THEN handleMyAvatarsCommand(u, x)
        ELSE IF \/ startsWith(normalizedContent, Slash(T_access) \o <<" ">>)
                \/ startsWith(normalizedContent, T_access \o <<" ">>)
        THEN handleAccessCommand(u, content, accessName(content), x)
        ELSE IF normalizedContent \in {Slash(T_start), Slash(T_avatar), T_start}
        THEN handleStartCommand(u, x)
        ELSE IF normalizedContent \in {Slash(T_help), T_help}
        THEN handleHelpCommand(u, x)
        ELSE IF hasWizardSession
        THEN handleWizardInput(u, content, x)
        ELSE Unchanged(Replied(Event("default", u, content), "commands", x, 1))

\* Mutant of findPendingAvatar: a config that already has its issued timestamp
\* still counts as pending.
RECURSIVE findOfferedAvatar(_, _)
findOfferedAvatar(cfgs, indexes) ==
    IF indexes = <<>> THEN 0
    ELSE IF cfgs[Head(indexes)].credentialDefinitionId # ""
         THEN Head(indexes)
         ELSE findOfferedAvatar(cfgs, Tail(indexes))

\* avatars.find(a => a.credentialDefinitionId && !a.credentialIssuedAt), newest first
RECURSIVE findPendingAvatar(_, _)
findPendingAvatar(cfgs, indexes) ==
    IF indexes = <<>> THEN 0
    ELSE IF /\ cfgs[Head(indexes)].credentialDefinitionId # ""
            /\ cfgs[Head(indexes)].credentialIssuedAt = NoTime
         THEN Head(indexes)
         ELSE findPendingAvatar(cfgs, Tail(indexes))

handleCredentialReception(u, state, x) ==
    LET e == Event("credential-reception", u, <<>>)
        pendingAvatar == findPendingAvatar(avatar_configs,
                                           configFindByConnectionId(avatar_configs, u))
    IN  IF state = "done"
        THEN IF pendingAvatar # 0
             THEN Handled(avatar_creation_sessions,
                          configUpdate(avatar_configs, avatar_configs[pendingAvatar].id,
                                       [credentialIssuedAt |-> now], now),
                          avatarsCache, voicesCache,
                          [Replied(e, "credential_issued", x, 1)
                              EXCEPT !.cfg = avatar_configs[pendingAvatar].id])
             ELSE Unchanged([e EXCEPT !.http = 200])
        ELSE IF state \in {"declined", "abandoned"}
        THEN Unchanged(Replied(e, "offer_" \o state, x, 1))
        ELSE Unchanged([e EXCEPT !.http = 200])

\* claims?.find(c => c.name === name): the first claim of that name
RECURSIVE claimFind(_, _)
claimFind(claims, name) ==
    IF claims = <<>> THEN [found |-> FALSE, value |-> ""]
    ELSE IF Head(claims).name = name THEN [found |-> TRUE, value |-> Head(claims).value]
    ELSE claimFind(Tail(claims), name)

\* Mutant of proofItemVerified: the verification result is not looked at.
proofItemPresent(proofItem) == TRUE

\* proofItem.verified
proofItemVerified(proofItem) == proofItem.verified

\* Mutant of ownerClaimMatches: any owner claim is accepted.
ownerClaimPresent(ownerConnectionIdClaim, u) == ownerConnectionIdClaim.found

\* ownerConnectionIdClaim?.value === connectionId
ownerClaimMatches(ownerConnectionIdClaim, u) ==
    ownerConnectionIdClaim.found /\ ownerConnectionIdClaim.value = u

handleIdentityProofSubmit(u, submittedProofItems, x) ==
    LET e == [Event("identity-proof-submit", u, <<>>) EXCEPT !.proof = submittedProofItems]
    IN  IF submittedProofItems = <<>>
        THEN Unchanged([e EXCEPT !.http = 200])
        ELSE LET proofItem == submittedProofItems[1]
                 avatarConfigIdClaim == claimFind(proofItem.claims, "avatar_config_id")
                 ownerConnectionIdClaim == claimFind(proofItem.claims, "owner_connection_id")
                 found == configFindById(avatar_configs, avatarConfigIdClaim.value)
             IN  IF ~proofItemVerified(proofItem)
                 THEN Unchanged(Replied(e, "verification_failed", x, 1))
                 ELSE IF ~avatarConfigIdClaim.found \/ avatarConfigIdClaim.value = ""
                 THEN Unchanged(Replied(e, "missing_avatar_configuration", x, 1))
                 ELSE IF ~ownerClaimMatches(ownerConnectionIdClaim, u)
                 THEN Unchanged(Replied(e, "different_user", x, 1))
                 ELSE IF found = {}
                 THEN Unchanged(Replied(e, "configuration_not_found", x, 1))
                 ELSE LET avatarConfig == avatar_configs[CHOOSE i \in found : TRUE]
                      IN  Unchanged(startCustomAvatarSession(
                                [e EXCEPT !.cfg = avatarConfig.id], avatarConfig, x, 1))

-----------------------------------------------------------------------------
(* The message webhook's handlers as actions *)

ApplyHandled(h) ==
    /\ avatar_creation_sessions' = h.sessions
    /\ avatar_configs' = h.configs
    /\ avatarsCache' = h.avatarsCache
    /\ voicesCache' = h.voicesCache
    /\ out' = h.out

\* POST /message-received with type 'text'
TextMessage(u, content, x) ==
    \E h \in {handleTextMessage(u, content, x)} :
        /\ Len(h.configs) <= MaxConfigs
        /\ ApplyHandled(h)
        /\ UNCHANGED <<now, pending_presentations, credentialDefinitionId, inflight>>

\* POST /message-received with type 'credential-reception'
CredentialReception(u, state, x) ==
    \E h \in {handleCredentialReception(u, state, x)} :
        /\ ApplyHandled(h)
        /\ UNCHANGED <<now, pending_presentations, credentialDefinitionId, inflight>>

\* POST /message-received with type 'identity-proof-submit'
IdentityProofSubmit(u, submittedProofItems, x) ==
    \E h \in {handleIdentityProofSubmit(u, submittedProofItems, x)} :
        /\ ApplyHandled(h)
        /\ UNCHANGED <<now, pending_presentations, credentialDefinitionId, inflight>>

I_create == Slash(T_create)

I_slashCancel == <<"/", "C", "a", "n", "c", "e", "l">>

I_accessAl == <<"/", "A", "c", "c", "e", "s", "s", " ", " ", "a", "l", " ">>

I_help == Slash(T_help)

\* The texts tried: the first user walks the wizard and uses the commands, the
\* second one, whose config exists from the start, asks for access to it.
TextInputs(u) ==
    IF u = "u1"
    THEN {I_create, I_slashCancel, I_accessAl} \cup
         CASE stepOf(u) \in {"avatar_selection", "voice_selection", "language_selection"} ->
                {I_1}
           [] stepOf(u) = "name_input" -> {I_Al, I_B}
           [] stepOf(u) = "prompt_input" -> {I_Skip}
           [] stepOf(u) = "confirmation" -> {I_Confirm}
           [] OTHER -> {I_help}
    ELSE {I_accessAl, I_help}

ReceptionStates == {"done", "declined"}

Claim(name, value) == [name |-> name, value |-> value]

ProofItem(verified, claims) == [verified |-> verified, claims |-> claims]

OwnershipProof(verified, cfg, owner) ==
    <<ProofItem(verified, <<Claim("avatar_name", "Al"), Claim("avatar_config_id", cfg),
                            Claim("owner_connection_id", owner)>>)>>

\* The proof submissions tried: none, without a config id, unverified, and verified
\* ones naming either user as the owner of an existing or of a missing config.
ProofSubmissions ==
    {<<>>, <<ProofItem(TRUE, <<Claim("owner_connection_id", "u1")>>)>>,
     OwnershipProof(FALSE, configId(1), "u2"), OwnershipProof(TRUE, configId(1), "u2"),
     OwnershipProof(TRUE, configId(1), "u1"), OwnershipProof(TRUE, configId(2), "u1"),
     OwnershipProof(TRUE, configId(MaxConfigs + 1), "u1")}

\* The credential state of a config committed before: none offered, offered, received
EarlierCredential(cfg, state) ==
    [cfg EXCEPT !.credentialDefinitionId =
                    IF state = "none" THEN "" ELSE credentialDefinitionId,
                !.credentialIssuedAt = IF state = "received" THEN 0 ELSE NoTime]

Init ==
    /\ now = 0
    /\ avatar_creation_sessions = {}
    /\ pending_presentations = {}
    /\ avatarsCache = NoCache
    /\ voicesCache = NoCache
    /\ credentialDefinitionId \in {"", "creddef-1"}
    /\ avatar_configs \in
         {<<EarlierCredential(EarlierConfig("u2"), state)>> :
             state \in IF credentialDefinitionId = "" THEN {"none"}
                       ELSE {"none", "offered", "received"}}
    /\ out = NoEvent
    /\ inflight = {}

Next ==
    \E u \in Users :
        \/ \E content \in TextInputs(u), x \in Externals : TextMessage(u, content, x)
        \/ \E state \in ReceptionStates, x \in SendExternals :
              CredentialReception(u, state, x)
        \/ \E items \in ProofSubmissions, x \in SessionExternals :
              IdentityProofSubmit(u, items, x)

Spec == Init /\ [][Next]_vars

-----------------------------------------------------------------------------
(* Claims about access and proofs, checked under Spec *)

\* The stored row of a config id
storedConfig(id) == avatar_configs[CHOOSE i \in configFindById(avatar_configs, id) : TRUE]

\* The first submitted proof item of the last event is verified and names conn as owner
provedOwner(o) ==
    /\ o.proof # <<>>
    /\ o.proof[1].verified
    /\ claimFind(o.proof[1].claims, "owner_connection_id") = [found |-> TRUE, value |-> o.conn]

C4_UnprotectedAccessIsDirect ==
    /\ \A i \in configIndexes(avatar_configs) :
          avatar_configs[i].credentialIssuedAt # NoTime
             => avatar_configs[i].credentialDefinitionId # ""
    /\ (/\ out.op = "access" /\ out.cfg # ""
        /\ storedConfig(out.cfg).credentialDefinitionId = "")
          => /\ out.proofRequests = 0 /\ out.proofOutcome = "none"
             /\ out.attempted = out.cfg
             /\ out.started = out.cfg \/ (out.started = "" /\ out.message = "start_failed")

\* With the coordinator configured, access to a config without a credential started
\* the session at once.
C4_Witness ==
    /\ out.op = "access" /\ out.cfg # "" /\ isConfigured
    /\ storedConfig(out.cfg).credentialDefinitionId = ""
    /\ out.started = out.cfg /\ out.proofRequests = 0

\* The four conditions under which handleIdentityProofSubmit goes on to start a session
proofAccepted(o, cfgs) ==
    /\ o.proof # <<>>
    /\ o.proof[1].verified
    /\ claimFind(o.proof[1].claims, "avatar_config_id").found
    /\ claimFind(o.proof[1].claims, "avatar_config_id").value # ""
    /\ claimFind(o.proof[1].claims, "owner_connection_id") = [found |-> TRUE, value |-> o.conn]
    /\ configFindById(cfgs, claimFind(o.proof[1].claims, "avatar_config_id").value) # {}

\* C5: handleIdentityProofSubmit starts a session only if the first proof item is
\* verified, carries an avatar_config_id claim and an owner_connection_id claim equal
\* to the sender's connection id, and the claimed config exists; the session is the
\* claimed config's; otherwise none is started or attempted; no store row changes.
C5_ProofSubmitStartsOnlyVerifiedOwner ==
    [][out'.op = "identity-proof-submit" =>
          /\ UNCHANGED <<avatar_creation_sessions, avatar_configs, pending_presentations>>
          /\ IF proofAccepted(out', avatar_configs)
             THEN /\ out'.attempted =
                        claimFind(out'.proof[1].claims, "avatar_config_id").value
                  /\ out'.started \in {"", out'.attempted}
             ELSE out'.started = "" /\ out'.attempted = ""]_vars

\* A verified proof naming the sender as owner started the session of the config.
C5_Witness ==
    /\ out.op = "identity-proof-submit" /\ proofAccepted(out, avatar_configs)
    /\ out.started = configId(1) /\ out.message = "starting"

-----------------------------------------------------------------------------
(* Two users walking the wizard *)

WalkInputs(step) ==
    CASE step \in {"avatar_selection", "voice_selection", "language_selection"} -> {I_1}
      [] step = "name_input" -> {I_Al, I_al}
      [] step = "prompt_input" -> {I_Skip}
      [] step = "confirmation" -> {I_Confirm}
      [] OTHER -> {I_1}

InitUsers ==
    /\ now = 0
    /\ avatar_creation_sessions = {}
    /\ avatar_configs = <<>>
    /\ pending_presentations = {}
    /\ avatarsCache = NoCache
    /\ voicesCache = NoCache
    /\ credentialDefinitionId = ""
    /\ out = NoEvent
    /\ inflight = {}

NextUsers ==
    \E u \in Users :
        \/ StartWizard(u)
        \/ \E input \in WalkInputs(stepOf(u)) : ProcessInput(u, input)
        \/ CancelWizard(u)

SpecUsers == InitUsers /\ [][NextUsers]_vars

\* C7: the config store never holds two rows with the same owner and names that are
\* equal ignoring case.
C7_NamesUniquePerOwner ==
    \A i, j \in configIndexes(avatar_configs) :
        (/\ i # j
         /\ avatar_configs[i].connectionId = avatar_configs[j].connectionId)
            => toLowerCase(avatar_configs[i].name) # toLowerCase(avatar_configs[j].name)

\* Both users own a config of the same name up to case, and the one who tried the
\* name again was turned down.
C7_Witness ==
    /\ Len(avatar_configs) = 2
    /\ avatar_configs[1].connectionId # avatar_configs[2].connectionId
    /\ avatar_configs[1].name # avatar_configs[2].name
    /\ toLowerCase(avatar_configs[1].name) = toLowerCase(avatar_configs[2].name)
    /\ out.op = "processInput" /\ out.step = "name_input" /\ out.message = "name_exists"

-----------------------------------------------------------------------------
(* Table pending_presentations and the presentation callback *)

PresentationTtl == 1

ProofExchangeIds == {"pex-1", "pex-2"}

\* INSERT INTO pending_presentations ...: status defaults to 'pending'; a missing
\* connection id is stored as null, written "" here.
presentationNewRow(proofExchangeId, u, cfg, t) ==
    [proofExchangeId |-> proofExchangeId, connectionId |-> u, avatarConfigId |-> cfg,
     status |-> "pending", createdAt |-> t, expiresAt |-> t + PresentationTtl,
     verifiedAt |-> NoTime]

presentationFindByProofExchangeId(tbl, proofExchangeId) ==
    {r \in tbl : r.proofExchangeId = proofExchangeId}

\* UPDATE pending_presentations SET <patch> WHERE proof_exchange_id = $n
presentationUpdateByProofExchangeId(tbl, proofExchangeId, patch) ==
    {IF r.proofExchangeId = proofExchangeId
        THEN [f \in DOMAIN r |-> IF f \in DOMAIN patch THEN patch[f] ELSE r[f]]
        ELSE r : r \in tbl}

\* DELETE ... WHERE status = 'pending' AND expires_at IS NOT NULL AND expires_at < NOW()
presentationDeleteExpired(tbl, t) ==
    {r \in tbl : ~(r.status = "pending" /\ r.expiresAt < t)}

\* UPDATE ... SET status = 'expired' WHERE status = 'pending' AND ... expires_at < NOW()
presentationExpirePending(tbl, t) ==
    {IF r.status = "pending" /\ r.expiresAt < t THEN [r EXCEPT !.status = "expired"]
        ELSE r : r \in tbl}

\* POST /api/presentation/callback: the table it leaves and the status it answers
presentationCallback(proofExchangeId, verified, ref, claims) ==
    LET found == presentationFindByProofExchangeId(pending_presentations, proofExchangeId)
        presentation == CHOOSE r \in found : TRUE
        updated == presentationUpdateByProofExchangeId(
                       pending_presentations, proofExchangeId,
                       [status |-> "verified", verifiedAt |-> now])
        avatarConfigId == IF ref # "" THEN ref ELSE presentation.avatarConfigId
        ownerClaim == claimFind(claims, "owner_connection_id")
    IN  IF ~verified
        THEN [presentations |-> presentationUpdateByProofExchangeId(
                                    pending_presentations, proofExchangeId,
                                    [status |-> "rejected"]),
              http |-> 200, cfg |-> ""]
        ELSE IF found = {}
        THEN [presentations |-> pending_presentations, http |-> 404, cfg |-> ""]
        ELSE IF configFindById(avatar_configs, avatarConfigId) = {}
        THEN [presentations |-> updated, http |-> 404, cfg |-> ""]
        ELSE IF /\ ownerClaim.found /\ presentation.connectionId # ""
                /\ ownerClaim.value # presentation.connectionId
        THEN [presentations |-> updated, http |-> 403, cfg |-> ""]
        ELSE [presentations |-> updated, http |-> 200, cfg |-> avatarConfigId]

\* PresentationRepository.create; proof_exchange_id is UNIQUE, a second insert fails.
CreatePresentation(proofExchangeId, u, cfg) ==
    /\ Cardinality(pending_presentations) < MaxPresentations
    /\ presentationFindByProofExchangeId(pending_presentations, proofExchangeId) = {}
    /\ pending_presentations' =
          pending_presentations \cup {presentationNewRow(proofExchangeId, u, cfg, now)}
    /\ out' = [NoEvent EXCEPT !.op = "presentation-create", !.conn = u, !.cfg = cfg]
    /\ UNCHANGED <<now, avatar_creation_sessions, avatar_configs, avatarsCache,
                   voicesCache, credentialDefinitionId, inflight>>

PresentationCallback(proofExchangeId, verified, ref, claims) ==
    \E r \in {presentationCallback(proofExchangeId, verified, ref, claims)} :
        /\ pending_presentations' = r.presentations
        /\ out' = [NoEvent EXCEPT !.op = "presentation-callback", !.http = r.http,
                                  !.cfg = r.cfg,
                                  !.proof = <<ProofItem(verified, claims)>>]
        /\ UNCHANGED <<now, avatar_creation_sessions, avatar_configs, avatarsCache,
                       voicesCache, credentialDefinitionId, inflight>>

ExpirePending ==
    /\ pending_presentations' = presentationExpirePending(pending_presentations, now)
    /\ out' = [NoEvent EXCEPT !.op = "expirePending"]
    /\ UNCHANGED <<now, avatar_creation_sessions, avatar_configs, avatarsCache,
                   voicesCache, credentialDefinitionId, inflight>>

DeleteExpired ==
    /\ pending_presentations' = presentationDeleteExpired(pending_presentations, now)
    /\ out' = [NoEvent EXCEPT !.op = "deleteExpired"]
    /\ UNCHANGED <<now, avatar_creation_sessions, avatar_configs, avatarsCache,
                   voicesCache, credentialDefinitionId, inflight>>

InitPresentation ==
    /\ now = 0
    /\ avatar_creation_sessions = {}
    /\ avatar_configs = <<EarlierConfig("u1")>>
    /\ pending_presentations = {}
    /\ avatarsCache = NoCache
    /\ voicesCache = NoCache
    /\ credentialDefinitionId = "creddef-1"
    /\ out = NoEvent
    /\ inflight = {}

NextPresentation ==
    \/ \E p \in ProofExchangeIds, u \in {"", "u1"} : CreatePresentation(p, u, configId(1))
    \/ \E p \in ProofExchangeIds, verified \in BOOLEAN, ref \in {"", configId(MaxConfigs + 1)},
          claims \in {<<>>, <<Claim("owner_connection_id", "u2")>>} :
            PresentationCallback(p, verified, ref, claims)
    \/ ExpirePending
    \/ DeleteExpired
    \/ Tick

SpecPresentation == InitPresentation /\ [][NextPresentation]_vars

PresentationStatuses == {"pending", "verified", "rejected", "expired"}

\* C6: the status of a presentation changes only from pending to verified, rejected
\* or expired; a row that is verified, rejected or expired keeps its status through
\* every later callback and sweep.
C6_StatusOnlyLeavesPending ==
    [][\A r \in pending_presentations, q \in pending_presentations' :
          (q.proofExchangeId = r.proofExchangeId /\ q.status # r.status)
             => (r.status = "pending" /\ q.status \in {"verified", "rejected", "expired"})]_vars

-----------------------------------------------------------------------------
(* Further claims about the wizard, checked under SpecWizard *)

\* C11: processInput for a user without an active session answers with the
\* no-active-session reply, marked ended, and writes nothing to the session,
\* config and presentation stores, whatever the text.
C11_NoSessionNoWrites ==
    [][(/\ now' = now
        /\ out'.op = "processInput"
        /\ sessionFindByConnectionId(avatar_creation_sessions, out'.conn, now) = {})
          => /\ out'.message = "no_active_session"
             /\ out'.sessionEnded /\ ~out'.isComplete /\ out'.cfg = ""
             /\ UNCHANGED <<avatar_creation_sessions, avatar_configs,
                            pending_presentations>>]_vars

\* 'Confirm' was sent without a session: the reply is the no-active-session one.
C11_Witness ==
    /\ out.op = "processInput" /\ out.step = "none" /\ out.input = I_Confirm
    /\ out.message = "no_active_session" /\ out.sessionEnded
    /\ avatar_creation_sessions = {} /\ Len(avatar_configs) = 1

-----------------------------------------------------------------------------
(* Every kind of event: the message webhook and the presentation callback *)

NextEvents ==
    \/ Next
    \/ \E u \in Users, content \in {I_yes, I_no, I_maybe}, x \in Externals :
          stepOf(u) = "confirmation" /\ TextMessage(u, content, x)
    \/ \E p \in ProofExchangeIds, verified \in BOOLEAN :
          PresentationCallback(p, verified, "", <<>>)

SpecEvents == Init /\ [][NextEvents]_vars

CommitWords == {<<"c", "o", "n", "f", "i", "r", "m">>, <<"y", "e", "s">>}

\* C12: the config store gains a row only when processInput handles 'confirm' or
\* 'yes' for a session at step confirmation, and then exactly one row, owned by the
\* sender; no other event adds a row, and none removes one.
C12_OnlyConfirmCreates ==
    [][Len(avatar_configs') # Len(avatar_configs) =>
          /\ Len(avatar_configs') = Len(avatar_configs) + 1
          /\ \A i \in configIndexes(avatar_configs) :
                avatar_configs'[i].id = avatar_configs[i].id
          /\ avatar_configs'[Len(avatar_configs')].connectionId = out'.conn
          /\ out'.op = "wizard" /\ out'.step = "confirmation" /\ out'.isComplete
          /\ toLowerCase(trim(out'.input)) \in CommitWords]_vars

\* 'YES' at step confirmation committed the second config of the store.
C12_Witness ==
    /\ out.op = "wizard" /\ out.step = "confirmation" /\ out.input = I_yes
    /\ out.isComplete /\ Len(avatar_configs) = 2
    /\ avatar_configs[2].id = out.cfg /\ avatar_configs[2].connectionId = out.conn

-----------------------------------------------------------------------------
(* Further claims about two users walking the wizard, checked under SpecUsers *)

\* C13: the session table holds at most one row per user.
C13_OneSessionPerUser ==
    \A u \in Users : Cardinality(sessionRowsOf(avatar_creation_sessions, u)) <= 1

\* startWizard was called again in the middle of a walk: the user's row was replaced
\* by a fresh one at avatar_selection, while the other user's walk goes on.
C13_Witness ==
    /\ out.op = "startWizard" /\ out.step = "name_input"
    /\ sessionRowsOf(avatar_creation_sessions, out.conn) =
          {SessionRow(out.conn, "avatar_selection", now)}
    /\ Cardinality(avatar_creation_sessions) = 2

-----------------------------------------------------------------------------
(* Faults: a failing catalog fetch, and a crash in the middle of the commit *)

\* startWizard when heygenCatalogService.listAvatars rejects
StartWizardCatalogDown(u) ==
    \E r \in {startWizard(u, FALSE)} :
        /\ ApplyWizard(r)
        /\ out' = WizardOut("startWizard", u, <<>>, r)
        /\ UNCHANGED <<now, pending_presentations, credentialDefinitionId, inflight>>

\* handleConfirmation up to the return of avatarConfigRepository.create: the config
\* row is inserted and the session row is still there; out.op = "commit-create"
\* marks the handler as being between its two writes.
CommitCreate(u, input) ==
    \E r \in {processInput(u, input)} :
        /\ r.response.isComplete
        /\ Len(r.configs) <= MaxConfigs
        /\ avatar_configs' = r.configs
        /\ out' = [NoEvent EXCEPT !.op = "commit-create", !.conn = u, !.input = input,
                                  !.step = stepOf(u),
                                  !.cfg = r.response.avatarConfig[1].id]
        /\ UNCHANGED <<now, avatar_creation_sessions, pending_presentations, avatarsCache,
                       voicesCache, credentialDefinitionId, inflight>>

\* The rest of handleConfirmation: creationSessionRepository.delete and the reply
CommitDelete ==
    /\ out.op = "commit-create"
    /\ avatar_creation_sessions' = sessionDelete(avatar_creation_sessions, out.conn)
    /\ out' = [out EXCEPT !.op = "processInput", !.message = "creating",
                          !.isComplete = TRUE]
    /\ UNCHANGED <<now, avatar_configs, pending_presentations, avatarsCache, voicesCache,
                   credentialDefinitionId, inflight>>

\* The process dies between the two writes and is started again: the tables keep
\* what was written, the caches of the process are lost.
Crash ==
    /\ out.op = "commit-create"
    /\ avatarsCache' = NoCache
    /\ voicesCache' = NoCache
    /\ out' = [NoEvent EXCEPT !.op = "crash", !.conn = out.conn, !.cfg = out.cfg]
    /\ UNCHANGED <<now, avatar_creation_sessions, avatar_configs, pending_presentations,
                   credentialDefinitionId, inflight>>

\* No handler is between its two writes
Idle == out.op # "commit-create"

NextFaults ==
    \/ Idle /\ StartWizard("u1")
    \/ Idle /\ StartWizardCatalogDown("u1")
    \/ Idle /\ \E input \in WalkInputs(stepOf("u1")) : ProcessInput("u1", input)
    \/ Idle /\ \E input \in WalkInputs(stepOf("u1")) : CommitCreate("u1", input)
    \/ Idle /\ CancelWizard("u1")
    \/ CommitDelete
    \/ Crash

SpecFaults == InitUsers /\ [][NextFaults]_vars

\* C14: when the catalog fetch fails during startWizard the reply is a failure with
\* the session ended, and the user has no active session afterwards.
C14_CatalogFailureEndsSession ==
    (out.op = "startWizard" /\ out.message = "catalog_failed")
        => (out.sessionEnded /\ ~hasActiveSession(out.conn))

\* A config of u that carries the name the session of u holds
committedFrom(cfgs, r) ==
    \E i \in configIndexes(cfgs) :
        cfgs[i].connectionId = r.connectionId /\ Str(cfgs[i].name) = r.customName

\* C16: after a crash during the commit the stores hold either the old state (the
\* session at confirmation, no config made from it) or the new one (the config, no
\* session), never both; and no session is ever committed into two configs.
C16_CommitIsAtomic ==
    /\ out.op = "crash" =>
          \A r \in avatar_creation_sessions : ~committedFrom(avatar_configs, r)
    /\ \A i, j \in configIndexes(avatar_configs) :
          (/\ i # j
           /\ avatar_configs[i].connectionId = avatar_configs[j].connectionId)
              => avatar_configs[i].name # avatar_configs[j].name

-----------------------------------------------------------------------------
(* Claims about the credential state of a config, checked under Spec *)

C17_EventsAcknowledged == out.op # NoEvent.op => out.http \in 200..299

-----------------------------------------------------------------------------
(* Claims about two users, checked under SpecUsers *)

\* The rows of avatar_configs that belong to u, with their positions
configRowsOf(cfgs, u) == {<<i, cfgs[i]>> : i \in {j \in configIndexes(cfgs) : cfgs[j].connectionId = u}}

\* C18: a wizard operation of one user (startWizard, processInput, cancelWizard)
\* leaves the session row and the configs of every other user as they were.
C18_NoCrossTalk ==
    [][out'.op \in {"startWizard", "processInput", "cancelWizard"}
          => \A v \in Users \ {out'.conn} :
                /\ sessionRowsOf(avatar_creation_sessions', v)
                      = sessionRowsOf(avatar_creation_sessions, v)
                /\ configRowsOf(avatar_configs', v) = configRowsOf(avatar_configs, v)]_vars

\* One user has just moved a step forward while the other one holds a session at
\* another step and a config of their own
C18_Witness ==
    /\ out.op = "processInput"
    /\ out.step = "name_input"
    /\ \E v \in Users \ {out.conn} :
          /\ \E r \in sessionRowsOf(avatar_creation_sessions, v) :
                r.currentStep = "voice_selection"
          /\ configRowsOf(avatar_configs, v) # {}
          /\ \E r \in sessionRowsOf(avatar_creation_sessions, out.conn) :
                r.currentStep = "prompt_input"

-----------------------------------------------------------------------------
(* Session expiry: time passes and the expired rows may be swept at any moment *)

\* CreationSessionRepository.deleteExpired, run at an arbitrary moment
SessionDeleteExpired ==
    /\ avatar_creation_sessions' = sessionDeleteExpired(avatar_creation_sessions, now)
    /\ out' = [NoEvent EXCEPT
                 !.op = "session-deleteExpired",
                 !.rowCount = Cardinality(avatar_creation_sessions
                                 \ sessionDeleteExpired(avatar_creation_sessions, now))]
    /\ UNCHANGED <<now, avatar_configs, pending_presentations, avatarsCache, voicesCache,
                   credentialDefinitionId, inflight>>

\* currentStep of the stored row of u, expired or not; "none" without a row
storedStepOf(u) ==
    IF sessionRowsOf(avatar_creation_sessions, u) = {} THEN "none"
    ELSE (CHOOSE r \in sessionRowsOf(avatar_creation_sessions, u) : TRUE).currentStep

\* The first user walks the wizard and cancels, the second one only starts sessions
\* and leaves them to expire.
NextExpiry ==
    \/ \E u \in Users : StartWizard(u)
    \/ \E input \in WalkInputs(storedStepOf("u1")) \ {I_al} : ProcessInput("u1", input)
    \/ CancelWizard("u1")
    \/ Tick
    \/ SessionDeleteExpired

SpecExpiry == InitUsers /\ [][NextExpiry]_vars

\* The stored row of u has passed its expiry time
sessionExpired(u) ==
    /\ sessionRowsOf(avatar_creation_sessions, u) # {}
    /\ \A r \in sessionRowsOf(avatar_creation_sessions, u) : r.expiresAt <= now

\* C19: once the expiry time of a user's session has passed, hasActiveSession is
\* false and processInput answers that there is no active session, creates no config
\* and leaves the session table as it is, swept or not.
C19_ExpiredSessionIsAbsent ==
    /\ [](\A u \in Users : sessionExpired(u) => ~hasActiveSession(u))
    /\ [][(now' = now /\ out'.op = "processInput" /\ sessionExpired(out'.conn))
             => /\ out'.message = "no_active_session"
                /\ out'.sessionEnded /\ ~out'.isComplete /\ out'.cfg = ""
                /\ UNCHANGED <<avatar_creation_sessions, avatar_configs>>]_vars

\* 'Confirm' arrived for a session that reached confirmation and then expired; its
\* row is still stored
C19_Witness ==
    /\ out.op = "processInput"
    /\ out.input = I_Confirm
    /\ out.message = "no_active_session"
    /\ sessionExpired(out.conn)
    /\ storedStepOf(out.conn) = "confirmation"
    /\ avatar_configs = <<>>

\* The texts a later processInput is compared on, one or more for every step
SweepInputs == {I_1, I_Al, I_Skip, I_Confirm, I_Cancel}

\* What a wizard operation returns and leaves behind, the expired session rows,
\* which no read returns, left aside
observed(r) ==
    [response |-> r.response, configs |-> r.configs,
     sessions |-> sessionDeleteExpired(r.sessions, now)]

\* C20: a session sweep deletes only rows that reads at that moment already treat
\* as absent, and every wizard operation called after it (startWizard, processInput,
\* cancelWizard, hasActiveSession) replies and leaves the configs and the readable
\* sessions as it would have without the sweep.
C20_SweepIsUnobservable ==
    [][now' = now /\ out'.op = "session-deleteExpired" /\ out'.rowCount > 0
          => /\ avatar_creation_sessions' \subseteq avatar_creation_sessions
             /\ \A r \in avatar_creation_sessions \ avatar_creation_sessions' :
                   r \notin sessionFindByConnectionId(avatar_creation_sessions,
                                                      r.connectionId, now)
             /\ \A u \in Users :
                   /\ hasActiveSession(u)' = hasActiveSession(u)
                   /\ observed(startWizard(u, TRUE))' = observed(startWizard(u, TRUE))
                   /\ observed(cancelWizard(u))' = observed(cancelWizard(u))
                   /\ \A input \in SweepInputs :
                         observed(processInput(u, input))'
                            = observed(processInput(u, input))]_vars

\* A sweep has deleted the expired row of one user and kept the live row of the other
C20_Witness ==
    /\ out.op = "session-deleteExpired"
    /\ out.rowCount = 1
    /\ Cardinality(avatar_creation_sessions) = 1
    /\ \E u \in Users : hasActiveSession(u) /\ storedStepOf(u) = "confirmation"

-----------------------------------------------------------------------------
(* The scenario '1', '1', '1', 'My Helper', 'skip', 'confirm', run by both users *)

I_MyHelper == <<"M", "y", " ", "H", "e", "l", "p", "e", "r">>

I_skip == <<"s", "k", "i", "p">>

I_confirm == <<"c", "o", "n", "f", "i", "r", "m">>

\* The next text of the scenario for a session at the given step: the steps are
\* passed in the order of the texts, and a session that strays into a manual-entry
\* step gets the '1' that follows in the sequence.
ScenarioInput(step) ==
    CASE step = "name_input" -> I_MyHelper
      [] step = "prompt_input" -> I_skip
      [] step = "confirmation" -> I_confirm
      [] OTHER -> I_1

\* Each user calls startWizard once and then sends the six texts; the two runs
\* interleave in every way.
NextScenario ==
    \E u \in Users :
        \/ /\ sessionRowsOf(avatar_creation_sessions, u) = {}
           /\ configFindByConnectionId(avatar_configs, u) = <<>>
           /\ StartWizard(u)
        \/ /\ stepOf(u) # "none"
           /\ ProcessInput(u, ScenarioInput(stepOf(u)))

SpecScenario == InitUsers /\ [][NextScenario]_vars

\* What the wizard answers when it accepts the text of a step
AcceptedReplies ==
    {"voice_list", "language_list", "name_prompt", "prompt_prompt", "summary", "creating"}

\* C21: with option 1 of the avatar list and of the voice list a real item,
\* startWizard followed by '1', '1', '1', 'My Helper', 'skip', 'confirm' never
\* re-prompts and commits exactly one config of the user, named 'My Helper', with the
\* first listed avatar and voice, language 'en' and a null prompt, and the user's
\* session is gone after the commit.
C21_ScenarioCommitsMyHelper ==
    /\ out.op = "processInput" =>
          /\ out.message \in AcceptedReplies
          /\ out.isComplete <=> out.step = "confirmation"
    /\ out.isComplete =>
          /\ sessionRowsOf(avatar_creation_sessions, out.conn) = {}
          /\ \E i \in configIndexes(avatar_configs) :
                avatar_configs[i].id = out.cfg /\ avatar_configs[i].connectionId = out.conn
    /\ \A i \in configIndexes(avatar_configs) :
          /\ avatar_configs[i].name = I_MyHelper
          /\ avatar_configs[i].avatarId = ConfigAvatarId
          /\ avatar_configs[i].voiceId = ConfigVoiceId
          /\ avatar_configs[i].language = <<"e", "n">>
          /\ avatar_configs[i].systemPrompt = Null
    /\ \A u \in Users : Len(configFindByConnectionId(avatar_configs, u)) <= 1

\* Both users have run the scenario to its end
C21_Witness ==
    /\ out.op = "processInput" /\ out.input = I_confirm /\ out.isComplete
    /\ avatar_creation_sessions = {}
    /\ Len(avatar_configs) = 2
    /\ avatar_configs[1].connectionId # avatar_configs[2].connectionId
    /\ avatar_configs[2].name = I_MyHelper

-----------------------------------------------------------------------------
(* Further claims about the steps of the wizard, checked under SpecWizard *)

\* The numbered option list a reply carries: the replies that open a selection step
\* carry the list of that step, every other reply carries none.
listIn(message) ==
    CASE message = "avatar_list" -> "avatars"
      [] message = "voice_list" -> "voices"
      [] message = "language_list" -> "languages"
      [] OTHER -> "none"

\* The option list shown when a selection step is entered
listOf(step) ==
    CASE step = "avatar_selection" -> "avatars"
      [] step = "voice_selection" -> "voices"
      [] step = "language_selection" -> "languages"
      [] OTHER -> "none"

\* C22: at a selection step the reply to an index outside 1..(number of options)
\* carries the option list that was shown when the step was entered.
C22_OutOfRangeRerendersList ==
    (/\ out.op = "processInput"
     /\ out.step \in {"avatar_selection", "voice_selection", "language_selection"}
     /\ isNumber(out.input)
     /\ \/ parseInt(trim(out.input)).n < 1
        \/ parseInt(trim(out.input)).n > optionsAt(out.step))
        => listIn(out.message) = listOf(out.step)

\* The steps processInput may move a session between
StepEdges ==
    {<<"avatar_selection", "avatar_manual_entry">>, <<"avatar_selection", "voice_selection">>,
     <<"avatar_manual_entry", "voice_selection">>,
     <<"voice_selection", "voice_manual_entry">>, <<"voice_selection", "language_selection">>,
     <<"voice_manual_entry", "language_selection">>,
     <<"language_selection", "name_input">>,
     <<"name_input", "prompt_input">>,
     <<"prompt_input", "confirmation">>}

\* C23: a processInput call leaves the step of the caller's session as it is, moves
\* it along one edge of the wizard's step graph, or ends the session; it never
\* skips a step and never moves backward.
C23_StepsFollowTheGraph ==
    [][(now' = now /\ out'.op = "processInput")
          => /\ sessionRowsOf(avatar_creation_sessions', out'.conn)
                   = {} \/ out'.step # "none"
             /\ \A r \in sessionRowsOf(avatar_creation_sessions', out'.conn) :
                   \/ r.currentStep = out'.step
                   \/ <<out'.step, r.currentStep>> \in StepEdges]_vars

\* A manual voice reference has moved the session on to the language list
C23_Witness ==
    /\ out.op = "processInput"
    /\ out.step = "voice_manual_entry"
    /\ out.message = "language_list"
    /\ \E r \in sessionRowsOf(avatar_creation_sessions, out.conn) :
          /\ r.currentStep = "language_selection"
          /\ r.selectedAvatarId = Str(I_avatarId)

-----------------------------------------------------------------------------
(* Further claims checked under SpecExpiry *)

\* C24: startWizard leaves the caller with one session row, at avatar_selection,
\* with no avatar, voice, language, name or prompt selected, started now and
\* expiring 30 minutes (SessionTtl) from now, whatever row the caller had before.
C24_StartWizardResetsSession ==
    [][(now' = now /\ out'.op = "startWizard")
          => /\ Cardinality(sessionRowsOf(avatar_creation_sessions', out'.conn)) = 1
             /\ \A r \in sessionRowsOf(avatar_creation_sessions', out'.conn) :
                   /\ r.currentStep = "avatar_selection"
                   /\ r.selectedAvatarId = Null /\ r.selectedVoiceId = Null
                   /\ r.selectedLanguage = Null
                   /\ r.customName = Null /\ r.systemPrompt = Null
                   /\ r.startedAt = now
                   /\ r.expiresAt = now + SessionTtl
             /\ sessionFindByConnectionId(avatar_creation_sessions', out'.conn, now) # {}
             /\ avatar_configs' = avatar_configs]_vars

\* startWizard was called, some time after the first call, by a user whose session
\* had reached confirmation with all its selections made
C24_Witness ==
    /\ out.op = "startWizard"
    /\ out.step = "confirmation"
    /\ now > 0
    /\ sessionRowsOf(avatar_creation_sessions, out.conn)
          = {SessionRow(out.conn, "avatar_selection", now)}

-----------------------------------------------------------------------------
(* The wizard with the slash form of cancel also tried at confirmation *)

NextConfirmation ==
    \/ NextWizard
    \/ stepOf("u1") = "confirmation" /\ ProcessInput("u1", I_slashCancel)

SpecConfirmation == InitWizard /\ [][NextConfirmation]_vars

\* The trimmed, lower-cased text of the last event
lastWord(o) == toLowerCase(trim(o.input))

AbortWords == {<<"c", "a", "n", "c", "e", "l">>, <<"n", "o">>}

SlashCancelWord == <<"/", "c", "a", "n", "c", "e", "l">>

\* processInput has just handled a text for a session at confirmation
AtConfirmation == now' = now /\ out'.op = "processInput" /\ out'.step = "confirmation"

SessionDeletedOnly ==
    /\ sessionRowsOf(avatar_creation_sessions', out'.conn) = {}
    /\ avatar_configs' = avatar_configs
    /\ out'.message = "cancelled" /\ out'.sessionEnded /\ ~out'.isComplete

RepromptedOnly ==
    /\ avatar_creation_sessions' = avatar_creation_sessions
    /\ avatar_configs' = avatar_configs
    /\ out'.message = "confirm_reprompt" /\ ~out'.sessionEnded /\ ~out'.isComplete

\* C25 (as stated): at confirmation 'cancel' or 'no' deletes the session and
\* creates no config, and every input other than confirm, yes, cancel and no
\* leaves the session and the configs unchanged and is answered with a re-prompt.
C25_OtherInputReprompts ==
    [][AtConfirmation
          => /\ lastWord(out') \in AbortWords => SessionDeletedOnly
             /\ lastWord(out') \notin (CommitWords \cup AbortWords) => RepromptedOnly]_vars

\* C25 (amended): the same, with '/cancel' deleting the session like 'cancel' does,
\* and the re-prompt for every input other than confirm, yes, cancel, /cancel and no.
C25_OtherInputRepromptsButSlashCancel ==
    [][AtConfirmation
          => /\ lastWord(out') \in (AbortWords \cup {SlashCancelWord}) => SessionDeletedOnly
             /\ lastWord(out') \notin (CommitWords \cup AbortWords \cup {SlashCancelWord})
                   => RepromptedOnly]_vars

\* 'no' at confirmation has deleted the session and left the configs as they were
C25_Witness ==
    /\ out.op = "processInput" /\ out.step = "confirmation" /\ out.input = I_no
    /\ out.message = "cancelled" /\ out.sessionEnded
    /\ sessionRowsOf(avatar_creation_sessions, out.conn) = {}
    /\ Len(avatar_configs) = 1

-----------------------------------------------------------------------------
(* Claims about the free-text steps, checked under SpecWizard *)

\* processInput has just handled a text for a session at the given step
AtStep(step) == now' = now /\ out'.op = "processInput" /\ out'.step = step

CancelWords == {<<"c", "a", "n", "c", "e", "l">>, <<"/", "c", "a", "n", "c", "e", "l">>}

\* The session row of the caller after the call
rowAfter == sessionRowsOf(avatar_creation_sessions', out'.conn)

NothingWritten ==
    /\ avatar_creation_sessions' = avatar_creation_sessions
    /\ avatar_configs' = avatar_configs
    /\ ~out'.sessionEnded /\ ~out'.isComplete

\* What a manual-entry step does with a text: too short, nothing is written and
\* the reply asks again; else the trimmed text is the reference and the step moves on.
ManualEntryDone(field, reprompt, next) ==
    /\ Len(trim(out'.input)) < 8 => NothingWritten /\ out'.message = reprompt
    /\ Len(trim(out'.input)) >= 8 =>
          /\ rowAfter # {}
          /\ \A r \in rowAfter : r[field] = Str(trim(out'.input)) /\ r.currentStep = next
          /\ avatar_configs' = avatar_configs

\* C26 (as stated): at avatar_manual_entry and voice_manual_entry a trimmed input
\* shorter than 8 characters leaves the session unchanged and is answered with a
\* re-prompt, and one of 8 or more characters is recorded as the avatar or voice
\* reference, the step moving to voice_selection or language_selection.
C26_ManualEntryLength ==
    [][/\ AtStep("avatar_manual_entry")
             => ManualEntryDone("selectedAvatarId", "invalid_avatar_id", "voice_selection")
       /\ AtStep("voice_manual_entry")
             => ManualEntryDone("selectedVoiceId", "invalid_voice_id", "language_selection")]_vars

\* C26 (amended): the same for every input other than 'cancel' and '/cancel', which
\* end the session at these steps as at every other.
C26_ManualEntryLengthButCancel ==
    [][lastWord(out') \notin CancelWords =>
          /\ AtStep("avatar_manual_entry")
                => ManualEntryDone("selectedAvatarId", "invalid_avatar_id", "voice_selection")
          /\ AtStep("voice_manual_entry")
                => ManualEntryDone("selectedVoiceId", "invalid_voice_id",
                                   "language_selection")]_vars

\* A reference of seven characters was turned down at avatar_manual_entry
C26_Witness ==
    /\ out.op = "processInput" /\ out.step = "avatar_manual_entry" /\ out.input = I_id7
    /\ out.message = "invalid_avatar_id"
    /\ \E r \in sessionRowsOf(avatar_creation_sessions, out.conn) :
          r.currentStep = "avatar_manual_entry" /\ r.selectedAvatarId = Null

-----------------------------------------------------------------------------
(* The wizard with a name of exactly 100 characters also tried at name_input *)

I_name100 == [i \in 1..100 |-> "n"]

NextNames ==
    \/ NextWizard
    \/ stepOf("u1") = "name_input" /\ ProcessInput("u1", I_name100)

SpecNames == InitWizard /\ [][NextNames]_vars

\* What name_input does with a text, by the length of the trimmed text
NameInputDone ==
    LET name == trim(out'.input)
    IN  /\ (Len(name) < 2 \/ Len(name) > 100) =>
              /\ NothingWritten
              /\ out'.message \in {"name_too_short", "name_too_long"}
        /\ (Len(name) >= 2 /\ Len(name) <= 100
              /\ ~ownsName(avatar_configs, out'.conn, name)) =>
              /\ rowAfter # {}
              /\ \A r \in rowAfter :
                    r.customName = Str(name) /\ r.currentStep = "prompt_input"
              /\ avatar_configs' = avatar_configs
              /\ out'.message = "prompt_prompt"

\* C27 (as stated): at name_input a trimmed name shorter than 2 or longer than 100
\* characters leaves the session unchanged and is answered with a re-prompt; one of
\* 2 to 100 characters that the owner does not have yet is recorded and the step
\* moves to prompt_input.
C27_NameLengthBounds == [][AtStep("name_input") => NameInputDone]_vars

\* C27 (amended): the same for every input other than 'cancel' and '/cancel', which
\* end the session.
C27_NameLengthBoundsButCancel ==
    [][(AtStep("name_input") /\ lastWord(out') \notin CancelWords) => NameInputDone]_vars

\* A name of exactly 100 characters was recorded
C27_Witness ==
    /\ out.op = "processInput" /\ out.step = "name_input" /\ out.input = I_name100
    /\ out.message = "prompt_prompt"
    /\ \E r \in sessionRowsOf(avatar_creation_sessions, out.conn) :
          r.currentStep = "prompt_input" /\ r.customName = Str(I_name100)

SkipWord == <<"s", "k", "i", "p">>

\* C28 (as stated): at prompt_input every input moves the session to confirmation,
\* with a null prompt when the input equals 'skip' ignoring case and with the input
\* text as the prompt otherwise.
C28_PromptStoredAsTyped ==
    [][AtStep("prompt_input")
          => /\ rowAfter # {}
             /\ \A r \in rowAfter :
                   /\ r.currentStep = "confirmation"
                   /\ r.systemPrompt = IF toLowerCase(out'.input) = SkipWord THEN Null
                                       ELSE Str(out'.input)]_vars

\* C28 (amended): every input other than 'cancel' and '/cancel' moves the session to
\* confirmation, with a null prompt when the trimmed input equals 'skip' ignoring
\* case and with the trimmed input as the prompt otherwise.
C28_PromptStoredTrimmed ==
    [][(AtStep("prompt_input") /\ lastWord(out') \notin CancelWords)
          => /\ rowAfter # {}
             /\ \A r \in rowAfter :
                   /\ r.currentStep = "confirmation"
                   /\ r.systemPrompt = IF lastWord(out') = SkipWord THEN Null
                                       ELSE Str(trim(out'.input))
             /\ avatar_configs' = avatar_configs
             /\ out'.message = "summary"]_vars

\* 'Skip' has moved the session to confirmation with a null prompt
C28_Witness ==
    /\ out.op = "processInput" /\ out.step = "prompt_input" /\ out.input = I_Skip
    /\ out.message = "summary"
    /\ \E r \in sessionRowsOf(avatar_creation_sessions, out.conn) :
          r.currentStep = "confirmation" /\ r.systemPrompt = Null /\ r.customName # Null

-----------------------------------------------------------------------------
(* The message webhook with command texts and other texts sent during a session *)

R_slashHelp == <<"/", "h", "e", "l", "p">>

R_help == <<"h", "e", "l", "p">>

R_slashMyAvatars == <<"/", "m", "y", "-", "a", "v", "a", "t", "a", "r", "s">>

R_slashStart == <<" ", "/", "S", "t", "a", "r", "t">>

R_slashFoo == <<"/", "f", "o", "o">>

R_slashCreate == <<"/", "c", "r", "e", "a", "t", "e">>

R_slashCancel == <<"/", "c", "a", "n", "c", "e", "l">>

R_slashAccess == <<"/", "a", "c", "c", "e", "s", "s", " ", "a", "l">>

R_slashAvatar == <<"/", "a", "v", "a", "t", "a", "r">>

R_create == <<"c", "r", "e", "a", "t", "e">>

\* The texts sent during a session on top of those of Spec
SessionTexts == {R_slashHelp, R_help, R_slashMyAvatars, R_slashStart, R_slashFoo}

\* All calls to other services succeed
AllFine == [failAt |-> 0, issueOk |-> TRUE, proofOk |-> TRUE, liveOk |-> TRUE]

\* The first user sends the texts of Spec and, during a session, the texts above;
\* every call to another service succeeds.
NextRouter ==
    \E content \in TextInputs("u1") \cup
                    (IF hasActiveSession("u1") THEN SessionTexts ELSE {}) :
        TextMessage("u1", content, AllFine)

SpecRouter == Init /\ [][NextRouter]_vars

\* The texts the routing is checked on in every state
RouterTexts ==
    SessionTexts \cup {R_slashCreate, R_slashCancel, R_slashAccess, R_slashAvatar,
                       R_create, I_1, I_Al, I_Confirm}

\* The command a normalized text names, "none" for any other text
commandOf(w) ==
    CASE w = R_slashCreate -> "create"
      [] w = R_slashCancel -> "cancel"
      [] w = R_slashMyAvatars -> "my-avatars"
      [] startsWith(w, <<"/", "a", "c", "c", "e", "s", "s", " ">>) -> "access"
      [] w \in {<<"/", "s", "t", "a", "r", "t">>, R_slashAvatar} -> "start"
      [] w = R_slashHelp -> "help"
      [] OTHER -> "none"

-----------------------------------------------------------------------------
(* A further claim about access, checked under Spec *)

\* C30: when the proof request to the credential authority fails during an access
\* command for a credential-protected config, the command starts no session for
\* that config and does not try to.
C30_FailedProofRequestAborts ==
    (/\ out.op = "access"
     /\ out.proofRequests = 1
     /\ out.proofOutcome = "refused")
        => (out.started = "" /\ out.attempted = "")

-----------------------------------------------------------------------------
(* Credential receptions over stores of several configs *)

\* The credential states a stored config can be in: none offered, offered, received
CredentialStates == {"none", "offered", "received"}

\* The states a credential-reception event reports
AllReceptionStates == ReceptionStates \cup {"abandoned", "offer-received"}

\* Row k of a store filled by earlier runs of the wizard
EarlierRow(k, u, state) ==
    [EarlierCredential(EarlierConfig(u), state) EXCEPT
        !.id = configId(k), !.name = <<"A">> \o [j \in 1..k |-> "l"], !.createdAt = 0]

\* The stores of MaxConfigs + 1 configs, each owned by either user and in any
\* credential state; the credential definition is registered.
InitReception ==
    /\ now = 1
    /\ avatar_creation_sessions = {}
    /\ pending_presentations = {}
    /\ avatarsCache = NoCache
    /\ voicesCache = NoCache
    /\ credentialDefinitionId = "creddef-1"
    /\ avatar_configs \in
         {[k \in 1..(MaxConfigs + 1) |-> EarlierRow(k, owners[k], states[k])] :
             owners \in [1..(MaxConfigs + 1) -> Users],
             states \in [1..(MaxConfigs + 1) -> CredentialStates]}
    /\ out = NoEvent
    /\ inflight = {}

NextReception ==
    \E u \in Users, state \in AllReceptionStates, x \in SendExternals :
        CredentialReception(u, state, x)

SpecReception == InitReception /\ [][NextReception]_vars

\* The configs of u that have a credential definition and no issued timestamp
pendingOf(cfgs, u) ==
    {i \in configIndexes(cfgs) :
        /\ cfgs[i].connectionId = u
        /\ cfgs[i].credentialDefinitionId # ""
        /\ cfgs[i].credentialIssuedAt = NoTime}

\* C31: a credential reception with state 'done' for u stamps credentialIssuedAt on
\* exactly one config: the first config of u, in the store's listing order (newest
\* first), that has a credential definition and no issued timestamp; every other
\* row stays as it is.  Without such a config, and for every other state, no row
\* changes.
C31_ReceptionStampsFirstPending ==
    \A u \in Users, state \in AllReceptionStates, x \in SendExternals :
        \A h \in {handleCredentialReception(u, state, x)} :
            IF state = "done" /\ pendingOf(avatar_configs, u) # {}
            THEN \E i \in pendingOf(avatar_configs, u) :
                    /\ \A j \in pendingOf(avatar_configs, u) : j <= i
                    /\ h.configs[i].credentialIssuedAt = now
                    /\ h.configs[i].connectionId = u
                    /\ h.configs[i].credentialDefinitionId
                          = avatar_configs[i].credentialDefinitionId
                    /\ DOMAIN h.configs = DOMAIN avatar_configs
                    /\ \A j \in configIndexes(avatar_configs) \ {i} :
                          h.configs[j] = avatar_configs[j]
            ELSE h.configs = avatar_configs

\* A reception stamped the newer of two pending configs of one user, and the older
\* one is still pending
C31_Witness ==
    /\ out.op = "credential-reception"
    /\ out.cfg # ""
    /\ \E i, j \in configIndexes(avatar_configs) :
          /\ i < j
          /\ avatar_configs[j].id = out.cfg
          /\ avatar_configs[j].credentialIssuedAt = now
          /\ avatar_configs[j].connectionId = out.conn
          /\ i \in pendingOf(avatar_configs, out.conn)

-----------------------------------------------------------------------------
(* Claims about credential issuance, checked under Spec *)

\* C32: after an issuance that succeeded, the row of the config carries the
\* registered credential definition and no issued timestamp; after an issuance the
\* agent refused, the row carries neither, and an access command of its owner for
\* it starts the session directly, without a proof request.
C32_IssuanceStampsDefinitionOnly ==
    (out.op = "wizard" /\ out.issuance \in {"initiated", "failed"})
        => /\ configFindById(avatar_configs, out.cfg) # {}
           /\ storedConfig(out.cfg).connectionId = out.conn
           /\ storedConfig(out.cfg).credentialIssuedAt = NoTime
           /\ out.issuance = "initiated"
                 => /\ credentialDefinitionId # ""
                    /\ storedConfig(out.cfg).credentialDefinitionId = credentialDefinitionId
           /\ out.issuance = "failed"
                 => /\ storedConfig(out.cfg).credentialDefinitionId = ""
                    /\ \A h \in {handleAccessCommand(out.conn, T_access,
                                                     storedConfig(out.cfg).name, AllFine)} :
                          /\ h.out.started = out.cfg
                          /\ h.out.proofRequests = 0

\* The agent refused the issuance for the config the first user has just committed
\* while a credential definition is registered
C32_Witness ==
    /\ out.op = "wizard"
    /\ out.issuance = "failed"
    /\ isConfigured
    /\ out.isComplete
    /\ Len(avatar_configs) = 2
    /\ avatar_configs[2].id = out.cfg
    /\ avatar_configs[2].credentialDefinitionId = ""

-----------------------------------------------------------------------------
(* issueAvatarCredential on its own, with and without a registered definition *)

\* credentialService.issueAvatarCredential(avatarConfig) for the stored config i
IssueAvatarCredential(i, x) ==
    \E issued \in {issueAvatarCredential(avatar_configs, avatar_configs[i], x)} :
        /\ avatar_configs' = issued.configs
        /\ out' = [NoEvent EXCEPT
                      !.op = "issueAvatarCredential",
                      !.conn = avatar_configs[i].connectionId,
                      !.cfg = avatar_configs[i].id,
                      !.issuance = IF issued.threw THEN "failed" ELSE "initiated",
                      !.issuanceRequests = IF issued.requested THEN 1 ELSE 0]
        /\ UNCHANGED <<now, avatar_creation_sessions, pending_presentations,
                       avatarsCache, voicesCache, credentialDefinitionId,
                       inflight>>

\* The registration of the credential definition has succeeded or not; the store
\* holds MaxConfigs configs without a credential, or in any credential state when
\* a definition is registered.
InitIssuance ==
    /\ now = 1
    /\ avatar_creation_sessions = {}
    /\ pending_presentations = {}
    /\ avatarsCache = NoCache
    /\ voicesCache = NoCache
    /\ credentialDefinitionId \in {"", "creddef-1"}
    /\ avatar_configs \in
         {[k \in 1..MaxConfigs |-> EarlierRow(k, owners[k], states[k])] :
             owners \in [1..MaxConfigs -> Users],
             states \in [1..MaxConfigs ->
                            IF credentialDefinitionId = "" THEN {"none"}
                            ELSE CredentialStates]}
    /\ out = NoEvent
    /\ inflight = {}

NextIssuance ==
    \E i \in configIndexes(avatar_configs), x \in {AllFine, [AllFine EXCEPT !.issueOk = FALSE]} :
        IssueAvatarCredential(i, x)

SpecIssuance == InitIssuance /\ [][NextIssuance]_vars

\* C33: issueAvatarCredential called while no credential definition is registered
\* fails, sends no issuance request and leaves every row of the config store as it
\* was.
C33_UnregisteredIssuanceFails ==
    [][(/\ now' = now
        /\ out'.op = "issueAvatarCredential"
        /\ credentialDefinitionId = "")
          => /\ out'.issuance = "failed"
             /\ out'.issuanceRequests = 0
             /\ avatar_configs' = avatar_configs]_vars

\* An issuance was tried without a registered definition and failed
C33_Witness ==
    /\ out.op = "issueAvatarCredential"
    /\ credentialDefinitionId = ""
    /\ out.issuance = "failed"
    /\ out.cfg = configId(2)
    /\ storedConfig(out.cfg).credentialDefinitionId = ""

-----------------------------------------------------------------------------
(* Claims about proof submissions, checked under Spec *)

\* C34: an identity-proof-submit event without submitted proof items starts no
\* session, and the user is sent a message that tells of the failure.
C34_EmptyProofIsAnswered ==
    (out.op = "identity-proof-submit" /\ out.proof = <<>>)
        => /\ out.started = ""
           /\ out.attempted = ""
           /\ out.message # ""

-----------------------------------------------------------------------------
(* Claims about expired presentations, checked under SpecPresentation *)

\* C35: a pending presentation whose expiry time has passed is not set to verified
\* by any step, in particular not by a callback with verified = true that arrives
\* before a sweep has marked or deleted the row.
C35_ExpiredIsNotVerified ==
    [][\A r \in pending_presentations :
          (r.status = "pending" /\ r.expiresAt < now)
             => \A after \in presentationFindByProofExchangeId(pending_presentations',
                                                               r.proofExchangeId) :
                   after.status # "verified"]_vars

\* The callbacks with verified = true tried on every state
CallbackRefs == {"", configId(MaxConfigs + 1)}

CallbackClaims == {<<>>, <<Claim("owner_connection_id", "u2")>>}

\* C38: whenever the presentation callback answers 404 or 403 to a callback with
\* verified = true, the presentation it names does not have the status verified
\* afterwards.
C38_VerifiedOnlyOnSuccess ==
    \A p \in ProofExchangeIds, ref \in CallbackRefs, claims \in CallbackClaims :
        \A c \in {presentationCallback(p, TRUE, ref, claims)} :
            c.http \in {403, 404}
               => \A r \in presentationFindByProofExchangeId(c.presentations, p) :
                     r.status # "verified"

\* C40: every session handleIdentityProofSubmit starts for a connection uses a
\* config whose stored owner is that connection, whatever avatar_config_id the
\* claims of the verified proof item carry.
C40_ProofSessionUsesOwnConfig ==
    (out.op = "identity-proof-submit" /\ out.started # "")
        => storedConfig(out.started).connectionId = out.conn

-----------------------------------------------------------------------------
(* Webhooks of one user handled concurrently *)

\* The webhooks in flight at the same time
Handlers == 1..3

\* A session row as the wizard leaves it at a step: the fields of the steps before
\* it are set.
SessionAt(u, step) ==
    LET pastAvatar == step \notin {"avatar_selection", "avatar_manual_entry"}
        pastVoice == pastAvatar /\ step \notin {"voice_selection", "voice_manual_entry"}
        pastLanguage == pastVoice /\ step # "language_selection"
        pastName == pastLanguage /\ step # "name_input"
    IN  [SessionRow(u, step, 0) EXCEPT
            !.selectedAvatarId = IF pastAvatar THEN Str(ConfigAvatarId) ELSE Null,
            !.selectedVoiceId = IF pastVoice THEN Str(ConfigVoiceId) ELSE Null,
            !.selectedLanguage = IF pastLanguage THEN Str(SUPPORTED_LANGUAGES[1]) ELSE Null,
            !.customName = IF pastName THEN Str(I_Al) ELSE Null]

\* What a webhook in flight holds: the session row it read, its position, and the
\* id of the config it inserted
Handler(k, op, u, input, session, pc, cfg) ==
    [k |-> k, op |-> op, conn |-> u, input |-> input, session |-> session,
     pc |-> pc, cfg |-> cfg]

idle(k) == \A h \in inflight : h.k # k

\* processInput up to the return of creationSessionRepository.findByConnectionId
BeginProcessInput(k, u, input) ==
    /\ idle(k)
    /\ \E found \in {sessionFindByConnectionId(avatar_creation_sessions, u, now)} :
          IF found = {}
          THEN /\ inflight' = inflight \cup
                     {Handler(k, "processInput", u, input, SessionRow(u, "none", now),
                              "done", "")}
               /\ out' = WizardOut("processInput", u, input, processInput(u, input))
          ELSE /\ inflight' = inflight \cup
                     {Handler(k, "processInput", u, input, CHOOSE r \in found : TRUE,
                              "read", "")}
               /\ out' = out
    /\ UNCHANGED <<now, avatar_creation_sessions, avatar_configs, pending_presentations,
                   avatarsCache, voicesCache, credentialDefinitionId>>

\* The rest of processInput for a handler that does not commit: the step handler
\* acts on the row it was given, its writes go to the tables as they are now.
FinishProcessInput(h) ==
    /\ h.pc = "read"
    /\ \E r \in {dispatchStep(h.conn, h.session, h.input)} :
          /\ ~r.response.isComplete
          /\ ApplyWizard(r)
          /\ out' = [WizardOut("processInput", h.conn, h.input, r) EXCEPT
                        !.step = h.session.currentStep]
    /\ inflight' = (inflight \ {h}) \cup {[h EXCEPT !.pc = "done"]}
    /\ UNCHANGED <<now, pending_presentations, credentialDefinitionId>>

\* handleConfirmation up to the return of avatarConfigRepository.create
ConfirmCreate(h) ==
    /\ h.pc = "read"
    /\ \E r \in {dispatchStep(h.conn, h.session, h.input)} :
          /\ r.response.isComplete
          /\ Len(r.configs) <= MaxConfigs
          /\ avatar_configs' = r.configs
          /\ inflight' = (inflight \ {h}) \cup
                {[h EXCEPT !.pc = "created", !.cfg = r.response.avatarConfig[1].id]}
    /\ UNCHANGED <<now, avatar_creation_sessions, pending_presentations, avatarsCache,
                   voicesCache, credentialDefinitionId, out>>

\* The rest of handleConfirmation: creationSessionRepository.delete and the reply
ConfirmDelete(h) ==
    /\ h.pc = "created"
    /\ avatar_creation_sessions' = sessionDelete(avatar_creation_sessions, h.conn)
    /\ out' = [NoEvent EXCEPT !.op = "processInput", !.conn = h.conn, !.input = h.input,
                              !.step = h.session.currentStep, !.message = "creating",
                              !.isComplete = TRUE, !.cfg = h.cfg]
    /\ inflight' = (inflight \ {h}) \cup {[h EXCEPT !.pc = "done"]}
    /\ UNCHANGED <<now, avatar_configs, pending_presentations, avatarsCache, voicesCache,
                   credentialDefinitionId>>

\* startWizard by a webhook of its own (/create)
StartWizardBeside(k, u) ==
    /\ idle(k)
    /\ \E r \in {startWizard(u, TRUE)} :
          /\ ApplyWizard(r)
          /\ out' = WizardOut("startWizard", u, <<>>, r)
    /\ inflight' = inflight \cup
          {Handler(k, "startWizard", u, <<>>, SessionRow(u, "avatar_selection", now),
                   "done", "")}
    /\ UNCHANGED <<now, pending_presentations, credentialDefinitionId>>

\* The first user is at some step of the wizard when the webhooks arrive.
InitRace ==
    /\ now = 0
    /\ avatar_creation_sessions \in {{SessionAt("u1", step)} : step \in Steps}
    /\ avatar_configs = <<>>
    /\ pending_presentations = {}
    /\ avatarsCache = Cache(listAvatars)
    /\ voicesCache = Cache(listVoices)
    /\ credentialDefinitionId = ""
    /\ out = NoEvent
    /\ inflight = {}

NextRace ==
    \/ \E k \in Handlers, input \in WalkInputs(storedStepOf("u1")) :
          BeginProcessInput(k, "u1", input)
    \/ \E h \in inflight : FinishProcessInput(h)
    \/ \E h \in inflight : ConfirmCreate(h)
    \/ \E h \in inflight : ConfirmDelete(h)
    \/ \E k \in Handlers : StartWizardBeside(k, "u1")

SpecRace == InitRace /\ [][NextRace]_vars

\* C36: when two 'confirm' messages for the same session at step confirmation are
\* handled concurrently, at most one config row is created for that session: no two
\* handlers that read the same session row have both inserted a config.
C36_OneConfigPerSession ==
    \A a, b \in inflight :
        (a.k # b.k /\ a.cfg # "" /\ b.cfg # "") => a.session # b.session

\* C37: a session at step confirmation has avatar, voice, language and name set,
\* and 'confirm' never gets the answer that the session is incomplete, also when
\* a startWizard of the same user falls between the read and the write of a
\* processInput.
C37_ConfirmationIsComplete ==
    /\ \A r \in avatar_creation_sessions :
          r.currentStep = "confirmation"
             => /\ truthy(r.selectedAvatarId) /\ truthy(r.selectedVoiceId)
                /\ truthy(r.selectedLanguage) /\ truthy(r.customName)
    /\ out.message # "session_incomplete"

-----------------------------------------------------------------------------
(* A credential offer answered while issueAvatarCredential is still running *)

\* A credential offer the agent accepted for config cfg of user u: pc tells
\* whether issueAvatarCredential has written the row yet, received whether the
\* user's credential-reception 'done' has been handled.
Offer(cfg, u, pc, received) ==
    [op |-> "issueAvatarCredential", cfg |-> cfg, conn |-> u, pc |-> pc,
     received |-> received]

\* issueAvatarCredential up to the answer of the agent to the credential-issuance
\* message; handleWizardInput calls it for the config its owner has just committed,
\* the newest one of that owner.
IssueRequest(i, x) ==
    /\ avatar_configs[i].credentialDefinitionId = ""
    /\ configFindByConnectionId(avatar_configs, avatar_configs[i].connectionId)[1] = i
    /\ \A h \in inflight : h.cfg # avatar_configs[i].id
    /\ \E issued \in {issueAvatarCredential(avatar_configs, avatar_configs[i], x)} :
          /\ inflight' = IF issued.threw THEN inflight
                         ELSE inflight \cup {Offer(avatar_configs[i].id,
                                                   avatar_configs[i].connectionId,
                                                   "requested", FALSE)}
          /\ out' = [NoEvent EXCEPT
                        !.op = "issueAvatarCredential",
                        !.conn = avatar_configs[i].connectionId,
                        !.cfg = avatar_configs[i].id,
                        !.issuance = IF issued.threw THEN "failed" ELSE "requested",
                        !.issuanceRequests = IF issued.requested THEN 1 ELSE 0]
    /\ UNCHANGED <<now, avatar_creation_sessions, avatar_configs, pending_presentations,
                   avatarsCache, voicesCache, credentialDefinitionId>>

\* The rest of issueAvatarCredential: avatarConfigRepository.update
IssueWrite(h) ==
    /\ h.pc = "requested"
    /\ avatar_configs' =
          issueAvatarCredential(avatar_configs, storedConfig(h.cfg), AllFine).configs
    /\ inflight' = (inflight \ {h}) \cup {[h EXCEPT !.pc = "written"]}
    /\ out' = [NoEvent EXCEPT !.op = "issueAvatarCredential", !.conn = h.conn,
                              !.cfg = h.cfg, !.issuance = "initiated"]
    /\ UNCHANGED <<now, avatar_creation_sessions, pending_presentations, avatarsCache,
                   voicesCache, credentialDefinitionId>>

\* The user's wallet answers the offer: credential-reception with state 'done'
OfferDone(h, x) ==
    /\ ~h.received
    /\ \E r \in {handleCredentialReception(h.conn, "done", x)} : ApplyHandled(r)
    /\ inflight' = (inflight \ {h}) \cup {[h EXCEPT !.received = TRUE]}
    /\ UNCHANGED <<now, pending_presentations, credentialDefinitionId>>

\* A credential definition is registered; the store holds MaxConfigs configs in any
\* credential state.
InitOffer ==
    /\ InitIssuance
    /\ credentialDefinitionId # ""

NextOffer ==
    \/ \E i \in configIndexes(avatar_configs),
          x \in {AllFine, [AllFine EXCEPT !.issueOk = FALSE]} : IssueRequest(i, x)
    \/ \E h \in inflight : IssueWrite(h)
    \/ \E h \in inflight, x \in SendExternals : OfferDone(h, x)

\* Every handler runs to its end, and every offer is answered.
SpecOfferFair ==
    /\ InitOffer
    /\ [][NextOffer]_vars
    /\ WF_vars(\E h \in inflight : IssueWrite(h))
    /\ WF_vars(\E h \in inflight, x \in SendExternals : OfferDone(h, x))

\* C39: once issueAvatarCredential has succeeded for a config and the user's
\* credential-reception 'done' for it has been handled, the config's
\* credentialIssuedAt is eventually set, in whichever order the reception and the
\* write of credentialDefinitionId took place.
C39_AnsweredOfferIsStamped ==
    \A i \in 1..MaxConfigs :
        (\E h \in inflight : h.cfg = configId(i) /\ h.pc = "written" /\ h.received)
            ~> (avatar_configs[i].credentialIssuedAt # NoTime)

====
